---- MODULE Spec2Model ----
(***************************************************************************)
(* guardian-env: the schema resolution engine (src/src/schema.ts), the     *)
(* validator combinators (base.ts, kept in src/unnamed/part_003) and the   *)
(* scalar validators the engine calls.                                     *)
(*                                                                         *)
(* JavaScript strings are TLA+ strings (Len, SubSeq and \o act on them).   *)
(* A JavaScript value that may be undefined is a tagged record: Undefined, *)
(* Str(s), Num(m, e), Bool(b).  A JavaScript object with insertion order   *)
(* (a schema, a shape) is a sequence of [key, value] entries with distinct *)
(* keys; a plain lookup table (an env snapshot, the result object) is a    *)
(* function from its keys.                                                 *)
(***************************************************************************)
EXTENDS Integers, Sequences, FiniteSets, TLC

VARIABLES
    objects,            \* the validator objects the caller has constructed, in
                        \* the order of their construction
    schema,             \* EnvGuardian._schema
    globalEnvSpecific,  \* EnvGuardian._globalEnvSpecific
    processEnv,         \* the ambient process.env
    pc,                 \* "idle", inside parse() "overrides" and "finish", then
                        \* "returned": the caller holds the outcome
    mode,               \* the public method running: "none", "parse", "validate"
    options,            \* the ParseOptions of the running (or last) call
    env,                \* parse(): const env
    nodeEnv,            \* parse(): const nodeEnv
    result,             \* parse(): const result
    allErrors,          \* parse(): const allErrors
    out                 \* what the last call gave back to its caller

vars == <<objects, schema, globalEnvSpecific, processEnv, pc, mode, options,
          env, nodeEnv, result, allErrors, out>>

----------------------------------------------------------------------------
(* JavaScript values *)

Undefined == [t |-> "undefined"]
Str(s) == [t |-> "string", s |-> s]
\* a finite number m * 10^(-e), e > 0 only when m is no multiple of 10
Num(m, e) == [t |-> "number", nan |-> FALSE, m |-> m, e |-> e]
NaN == [t |-> "number", nan |-> TRUE, m |-> 0, e |-> 0]
Bool(b) == [t |-> "boolean", b |-> b]

IsUndefined(x) == x.t = "undefined"
\* raw === undefined || raw === ""
IsAbsent(raw) == IsUndefined(raw) \/ (raw.t = "string" /\ raw.s = "")
\* the truthiness of a string | undefined
Truthy(x) == x.t = "string" /\ x.s # ""

----------------------------------------------------------------------------
(* String primitives *)

UpperChars == "ABCDEFGHIJKLMNOPQRSTUVWXYZ"
LowerChars == "abcdefghijklmnopqrstuvwxyz"
DigitChars == "0123456789"

CharAt(s, i) == SubSeq(s, i, i)
CharsOf(s) == {CharAt(s, i) : i \in 1..Len(s)}

\* index of the one-character string c in alphabet, 0 when it is not there
IndexIn(c, alphabet) ==
    LET hits == {i \in 1..Len(alphabet) : CharAt(alphabet, i) = c}
    IN IF hits = {} THEN 0 ELSE CHOOSE i \in hits : TRUE

UpperSet == CharsOf(UpperChars)
DigitSet == CharsOf(DigitChars)
LowerOf == [c \in UpperSet |-> CharAt(LowerChars, IndexIn(c, UpperChars))]
DigitOf == [c \in DigitSet |-> IndexIn(c, DigitChars) - 1]

LowerChar(c) == IF c \in UpperSet THEN LowerOf[c] ELSE c

RECURSIVE ToLowerCase(_)
ToLowerCase(s) ==
    IF s = "" THEN ""
    ELSE LowerChar(CharAt(s, 1)) \o ToLowerCase(SubSeq(s, 2, Len(s)))

\* String.prototype.includes
Includes(s, w) ==
    \E i \in 1..(Len(s) - Len(w) + 1) : SubSeq(s, i, i + Len(w) - 1) = w

RECURSIVE TrimStart(_)
TrimStart(s) ==
    IF s # "" /\ CharAt(s, 1) = " " THEN TrimStart(SubSeq(s, 2, Len(s))) ELSE s

RECURSIVE TrimEnd(_)
TrimEnd(s) ==
    IF s # "" /\ CharAt(s, Len(s)) = " " THEN TrimEnd(SubSeq(s, 1, Len(s) - 1)) ELSE s

Trim(s) == TrimEnd(TrimStart(s))

----------------------------------------------------------------------------
(* Numbers.  Number(raw) and String(n) on plain decimal numerals: an       *)
(* optional sign, digits, an optional fraction with digits on both sides  *)
(* of the dot.  Exponents, hex literals and "Infinity" are outside the raw *)
(* values the model draws.                                                 *)

RECURSIVE Pow10(_)
Pow10(e) == IF e = 0 THEN 1 ELSE 10 * Pow10(e - 1)

IsDigits(s) == s # "" /\ \A i \in 1..Len(s) : CharAt(s, i) \in DigitSet

RECURSIVE DigitsToInt(_)
DigitsToInt(s) ==
    IF s = "" THEN 0
    ELSE 10 * DigitsToInt(SubSeq(s, 1, Len(s) - 1))
         + DigitOf[CharAt(s, Len(s))]

RECURSIVE IntToDigits(_)
IntToDigits(n) ==
    IF n < 10 THEN CharAt(DigitChars, n + 1)
    ELSE IntToDigits(n \div 10) \o CharAt(DigitChars, (n % 10) + 1)

\* drop the trailing zeros of a fraction: m * 10^(-e) in lowest terms
RECURSIVE Normalize(_, _)
Normalize(m, e) ==
    IF e > 0 /\ m % 10 = 0 THEN Normalize(m \div 10, e - 1) ELSE Num(m, e)

\* place of the first "." of body, 0 when it has none
FirstDot(body) ==
    LET dots == {i \in 1..Len(body) : CharAt(body, i) = "."}
    IN IF dots = {} THEN 0 ELSE CHOOSE i \in dots : \A j \in dots : i <= j

\* the number whose integer digits are ip and whose fraction digits are fp
Decimal(neg, ip, fp, hasDot) ==
    IF IsDigits(ip) /\ (~hasDot \/ IsDigits(fp))
    THEN Normalize((IF neg THEN 0 - 1 ELSE 1) * DigitsToInt(ip \o fp), Len(fp))
    ELSE NaN

Unsigned(neg, body, dot) ==
    IF dot = 0 THEN Decimal(neg, body, "", FALSE)
    ELSE Decimal(neg, SubSeq(body, 1, dot - 1), SubSeq(body, dot + 1, Len(body)), TRUE)

Signed(neg, body) == Unsigned(neg, body, FirstDot(body))

Trimmed(s) ==
    IF s = "" THEN Num(0, 0)
    ELSE IF CharAt(s, 1) \in {"-", "+"}
    THEN Signed(CharAt(s, 1) = "-", SubSeq(s, 2, Len(s)))
    ELSE Signed(FALSE, s)

\* Number(raw), raw a string
StringToNumber(raw) == Trimmed(Trim(raw))

NumLess(a, b) == a.m * Pow10(b.e) < b.m * Pow10(a.e)
IsInteger(n) == ~n.nan /\ n.e = 0

RECURSIVE PadZeros(_, _)
PadZeros(s, width) == IF Len(s) >= width THEN s ELSE PadZeros("0" \o s, width)

\* String(n) / `${n}`
NumberToString(n) ==
    LET mag == IF n.m < 0 THEN 0 - n.m ELSE n.m
        sign == IF n.m < 0 THEN "-" ELSE ""
        p == Pow10(n.e)
    IN IF n.nan THEN "NaN"
       ELSE IF n.e = 0 THEN sign \o IntToDigits(mag)
       ELSE sign \o IntToDigits(mag \div p) \o "." \o PadZeros(IntToDigits(mag % p), n.e)

\* String(v) of a JavaScript value
JsString(v) ==
    CASE v.t = "string" -> v.s
      [] v.t = "number" -> NumberToString(v)
      [] v.t = "boolean" -> IF v.b THEN "true" ELSE "false"
      [] OTHER -> "undefined"

----------------------------------------------------------------------------
(* Validators.  A validator object is a record: the four ValidatorMeta     *)
(* fields set by the BaseValidator constructor, the private fields of its  *)
(* class, and cls, the class whose parse() it runs.                        *)

Ok(value) == [ok |-> TRUE, value |-> value]
Fail(error) == [ok |-> FALSE, error |-> error]

\* opts.f of an options object: undefined when the property is not there
Opt(opts, f) == IF f \in DOMAIN opts THEN opts[f] ELSE Undefined
\* x ?? d
Coalesce(x, d) == IF IsUndefined(x) THEN d ELSE x

BaseValidator(type, required, defaultValue, description) ==
    [_type |-> type, _required |-> required, _default |-> defaultValue,
     _description |-> description]

RECURSIVE Join(_, _)
Join(seq, sep) ==
    IF seq = <<>> THEN ""
    ELSE IF Len(seq) = 1 THEN seq[1]
    ELSE seq[1] \o sep \o Join(Tail(seq), sep)

SeqIncludes(seq, x) == \E i \in 1..Len(seq) : seq[i] = x

\* /^[chars]+$/ : the regular expressions the model draws
RegExp(source, chars) == [t |-> "regexp", source |-> source, chars |-> chars]
RegExpTest(re, s) ==
    s # "" /\ \A i \in 1..Len(s) : CharAt(s, i) \in CharsOf(re.chars)
RegExpToString(re) == "/" \o re.source \o "/"

(* string *)
StringValidator(opts) ==
    BaseValidator("string", Coalesce(Opt(opts, "required"), Bool(TRUE)).b,
                  Opt(opts, "defaultValue"), Opt(opts, "description"))
    @@ [cls |-> "StringValidator",
        _minLength |-> Opt(opts, "minLength"),
        _maxLength |-> Opt(opts, "maxLength"),
        _pattern |-> Opt(opts, "pattern")]

StringValidator_parse(v, raw) ==
    IF IsAbsent(raw) THEN Fail("Value is required")
    ELSE IF ~IsUndefined(v._minLength) /\ Len(raw.s) < v._minLength.m
    THEN Fail("Must be at least " \o NumberToString(v._minLength)
              \o " characters long (got " \o IntToDigits(Len(raw.s)) \o ")")
    ELSE IF ~IsUndefined(v._maxLength) /\ Len(raw.s) > v._maxLength.m
    THEN Fail("Must be at most " \o NumberToString(v._maxLength)
              \o " characters long (got " \o IntToDigits(Len(raw.s)) \o ")")
    ELSE IF ~IsUndefined(v._pattern) /\ ~RegExpTest(v._pattern, raw.s)
    THEN Fail("Must match pattern " \o RegExpToString(v._pattern))
    ELSE Ok(raw)

StringValidator_min(v, length) ==
    StringValidator([minLength |-> length, maxLength |-> v._maxLength,
                     pattern |-> v._pattern, description |-> v._description])
StringValidator_max(v, length) ==
    StringValidator([maxLength |-> length, minLength |-> v._minLength,
                     pattern |-> v._pattern, description |-> v._description])
StringValidator_matches(v, pattern) ==
    StringValidator([pattern |-> pattern, minLength |-> v._minLength,
                     maxLength |-> v._maxLength, description |-> v._description])
string == StringValidator([x \in {} |-> Undefined])

(* number *)
NumberValidator(opts) ==
    BaseValidator("number", Coalesce(Opt(opts, "required"), Bool(TRUE)).b,
                  Opt(opts, "defaultValue"), Opt(opts, "description"))
    @@ [cls |-> "NumberValidator",
        _min |-> Opt(opts, "min"),
        _max |-> Opt(opts, "max"),
        _integer |-> Coalesce(Opt(opts, "integer"), Bool(FALSE)).b]

\* parse, lines 32-60: the checks on parsed = Number(raw)
NumberValidator_check(v, raw, parsed) ==
    IF parsed.nan \/ Trim(raw.s) = ""
    THEN Fail("Expected a number, got \"" \o raw.s \o "\"")
    ELSE IF v._integer /\ ~IsInteger(parsed)
    THEN Fail("Expected an integer, got \"" \o raw.s \o "\"")
    ELSE IF ~IsUndefined(v._min) /\ NumLess(parsed, v._min)
    THEN Fail("Must be at least " \o NumberToString(v._min)
              \o " (got " \o NumberToString(parsed) \o ")")
    ELSE IF ~IsUndefined(v._max) /\ NumLess(v._max, parsed)
    THEN Fail("Must be at most " \o NumberToString(v._max)
              \o " (got " \o NumberToString(parsed) \o ")")
    ELSE Ok(parsed)

NumberValidator_parse(v, raw) ==
    IF IsAbsent(raw) THEN Fail("Value is required")
    ELSE NumberValidator_check(v, raw, StringToNumber(raw.s))

NumberValidator_min(v, value) ==
    NumberValidator([min |-> value, integer |-> Bool(v._integer),
                     max |-> v._max, description |-> v._description])
\* a max() that forgets the lower bound
NumberValidator_max_DropsMin(v, value) ==
    NumberValidator([max |-> value, integer |-> Bool(v._integer),
                     description |-> v._description])
NumberValidator_max(v, value) ==
    NumberValidator([max |-> value, integer |-> Bool(v._integer),
                     min |-> v._min, description |-> v._description])
NumberValidator_int(v) ==
    NumberValidator([integer |-> Bool(TRUE), min |-> v._min, max |-> v._max,
                     description |-> v._description])
\* a port() that lets fractions through
NumberValidator_port_NoInt(v) ==
    NumberValidator([min |-> Num(1, 0), max |-> Num(65535, 0),
                     description |-> v._description])
NumberValidator_port(v) ==
    NumberValidator([min |-> Num(1, 0), max |-> Num(65535, 0), integer |-> Bool(TRUE),
                     description |-> v._description])
number == NumberValidator([x \in {} |-> Undefined])

(* boolean *)
TRUTHY == {"true", "1", "yes", "on"}
FALSY == {"false", "0", "no", "off"}

BooleanValidator(opts) ==
    BaseValidator("boolean", Coalesce(Opt(opts, "required"), Bool(TRUE)).b,
                  Opt(opts, "defaultValue"), Opt(opts, "description"))
    @@ [cls |-> "BooleanValidator"]

BooleanValidator_parse(v, raw) ==
    IF IsAbsent(raw) THEN Fail("Value is required")
    ELSE LET normalized == Trim(ToLowerCase(raw.s)) IN
    IF normalized \in TRUTHY THEN Ok(Bool(TRUE))
    ELSE IF normalized \in FALSY THEN Ok(Bool(FALSE))
    ELSE Fail("Expected a boolean (true/false/1/0/yes/no/on/off), got \""
              \o raw.s \o "\"")
boolean == BooleanValidator([x \in {} |-> Undefined])

(* enum *)
Quoted(values) == [i \in 1..Len(values) |-> "\"" \o values[i] \o "\""]

EnumValidator(values, opts) ==
    BaseValidator("enum(" \o Join(values, " | ") \o ")",
                  Coalesce(Opt(opts, "required"), Bool(TRUE)).b,
                  Opt(opts, "defaultValue"), Opt(opts, "description"))
    @@ [cls |-> "EnumValidator", _values |-> values]

EnumValidator_parse(v, raw) ==
    IF IsAbsent(raw) THEN Fail("Value is required")
    ELSE IF SeqIncludes(v._values, raw.s) THEN Ok(raw)
    ELSE Fail("Expected one of [" \o Join(Quoted(v._values), ", ")
              \o "], got \"" \o raw.s \o "\"")
enumValidator(values) == EnumValidator(values, [x \in {} |-> Undefined])

(* url.  new URL(raw) on raw values of the forms scheme:rest and          *)
(* scheme://host/path: no white space, credentials, port, query, fragment, *)
(* backslash, percent escape, dot segment or numeric host label.           *)
IndexOf(s, c) ==
    LET hits == {i \in 1..Len(s) : CharAt(s, i) = c}
    IN IF hits = {} THEN 0 ELSE CHOOSE i \in hits : \A j \in hits : i <= j

LetterSet == CharsOf(LowerChars) \cup UpperSet
AlnumSet == LetterSet \cup DigitSet
SpecialSchemes == {"http", "https", "ftp", "ws", "wss"}

IsScheme(s) ==
    /\ s # ""
    /\ CharAt(s, 1) \in LetterSet
    /\ \A i \in 1..Len(s) : CharAt(s, i) \in AlnumSet \cup {"+", "-", "."}

IsHost(s) ==
    s # "" /\ \A i \in 1..Len(s) : CharAt(s, i) \in AlnumSet \cup {"-", "."}

RECURSIVE SkipSlashes(_)
SkipSlashes(s) ==
    IF s # "" /\ CharAt(s, 1) = "/" THEN SkipSlashes(SubSeq(s, 2, Len(s))) ELSE s

NotAUrl == [ok |-> FALSE]

\* host and path of what follows the slashes of scheme://
Authority(scheme, s, slash, emptyPath) ==
    IF slash = 0
    THEN IF IsHost(s) THEN [ok |-> TRUE, protocol |-> scheme \o ":", pathname |-> emptyPath]
         ELSE NotAUrl
    ELSE IF IsHost(SubSeq(s, 1, slash - 1))
         THEN [ok |-> TRUE, protocol |-> scheme \o ":",
               pathname |-> SubSeq(s, slash, Len(s))]
         ELSE NotAUrl

AfterSlashes(scheme, s, emptyPath) == Authority(scheme, s, IndexOf(s, "/"), emptyPath)

AfterScheme(scheme, rest) ==
    IF scheme \in SpecialSchemes THEN AfterSlashes(scheme, SkipSlashes(rest), "/")
    ELSE IF Len(rest) >= 2 /\ SubSeq(rest, 1, 2) = "//"
    THEN AfterSlashes(scheme, SubSeq(rest, 3, Len(rest)), "")
    ELSE [ok |-> TRUE, protocol |-> scheme \o ":", pathname |-> rest]

SchemeAt(raw, colon) ==
    IF colon = 0 \/ ~IsScheme(SubSeq(raw, 1, colon - 1)) THEN NotAUrl
    ELSE AfterScheme(ToLowerCase(SubSeq(raw, 1, colon - 1)),
                     SubSeq(raw, colon + 1, Len(raw)))

\* new URL(raw): ok is FALSE where the constructor throws
URL(raw) == SchemeAt(raw, IndexOf(raw, ":"))

\* s.replace(":", ""): the first ":" goes
ReplaceColon(s, colon) ==
    IF colon = 0 THEN s ELSE SubSeq(s, 1, colon - 1) \o SubSeq(s, colon + 1, Len(s))

UrlValidator(opts) ==
    BaseValidator("url", Coalesce(Opt(opts, "required"), Bool(TRUE)).b,
                  Opt(opts, "defaultValue"), Opt(opts, "description"))
    @@ [cls |-> "UrlValidator",
        _protocols |-> Coalesce(Opt(opts, "protocols"), <<"http", "https">>)]

\* parse, lines 153-168: the checks on parsed = new URL(raw)
UrlValidator_check(v, raw, parsed, protocol) ==
    IF ~SeqIncludes(v._protocols, protocol)
    THEN Fail("URL protocol must be one of [" \o Join(v._protocols, ", ")
              \o "], got \"" \o protocol \o "\"")
    ELSE IF Includes(parsed.pathname, "//")
    THEN Fail("URL path must not contain consecutive slashes, got \""
              \o raw.s \o "\"")
    ELSE Ok(raw)

UrlValidator_parsed(v, raw, parsed) ==
    IF ~parsed.ok THEN Fail("Expected a valid URL, got \"" \o raw.s \o "\"")
    ELSE UrlValidator_check(v, raw, parsed,
                            ReplaceColon(parsed.protocol, IndexOf(parsed.protocol, ":")))

UrlValidator_parse(v, raw) ==
    IF IsAbsent(raw) THEN Fail("Value is required")
    ELSE UrlValidator_parsed(v, raw, URL(raw.s))

UrlValidator_protocols(v, allowed) ==
    UrlValidator([protocols |-> allowed, description |-> v._description])
url == UrlValidator([x \in {} |-> Undefined])

(* email *)
RECURSIVE Split(_, _)
Split(s, sep) ==
    IF IndexOf(s, sep) = 0 THEN <<s>>
    ELSE <<SubSeq(s, 1, IndexOf(s, sep) - 1)>>
         \o Split(SubSeq(s, IndexOf(s, sep) + 1, Len(s)), sep)

\* the characters of the local part, but for the back quote, which no raw
\* value drawn here holds
LocalSet == AlnumSet \cup CharsOf(".!#$%&'*+/=?^_{|}~-")

\* [a-zA-Z0-9](?:[a-zA-Z0-9-]{0,61}[a-zA-Z0-9])?
IsLabel(s) ==
    /\ s # "" /\ Len(s) <= 63
    /\ CharAt(s, 1) \in AlnumSet /\ CharAt(s, Len(s)) \in AlnumSet
    /\ \A i \in 1..Len(s) : CharAt(s, i) \in AlnumSet \cup {"-"}

\* [a-zA-Z]{2,}
IsTopLevel(s) == Len(s) >= 2 /\ \A i \in 1..Len(s) : CharAt(s, i) \in LetterSet

DomainMatches(labels) ==
    /\ Len(labels) >= 2
    /\ IsTopLevel(labels[Len(labels)])
    /\ \A i \in 1..(Len(labels) - 1) : IsLabel(labels[i])

AddressMatches(s, at) ==
    /\ at > 1
    /\ \A i \in 1..(at - 1) : CharAt(s, i) \in LocalSet
    /\ DomainMatches(Split(SubSeq(s, at + 1, Len(s)), "."))

\* EMAIL_REGEX.test(s)
EMAIL_REGEX_test(s) == AddressMatches(s, IndexOf(s, "@"))

EmailValidator(opts) ==
    BaseValidator("email", Coalesce(Opt(opts, "required"), Bool(TRUE)).b,
                  Opt(opts, "defaultValue"), Opt(opts, "description"))
    @@ [cls |-> "EmailValidator"]

EmailValidator_parse(v, raw) ==
    IF IsAbsent(raw) THEN Fail("Value is required")
    ELSE IF ~EMAIL_REGEX_test(raw.s)
    THEN Fail("Expected a valid email address, got \"" \o raw.s \o "\"")
    ELSE Ok(raw)
email == EmailValidator([x \in {} |-> Undefined])

(* custom: fn is the caller's function, given by the raw strings it accepts *)
(* (returning them unchanged) and the failure it returns for the others     *)
CustomFn(accept, error) == [accept |-> accept, error |-> error]
CallFn(fn, raw) == IF raw.s \in fn.accept THEN Ok(raw) ELSE Fail(fn.error)

CustomValidator(fn, typeName) ==
    BaseValidator(typeName, TRUE, Undefined, Undefined)
    @@ [cls |-> "CustomValidator", _fn |-> fn]

CustomValidator_parse(v, raw) ==
    IF IsAbsent(raw) THEN Fail("Value is required")
    ELSE CallFn(v._fn, raw)

(* a caller's own implementation of the Validator interface: parse() may   *)
(* answer an absent value with any message                                 *)
UserValidator(type, required, fn) ==
    BaseValidator(type, required, Undefined, Undefined)
    @@ [cls |-> "UserValidator", _fn |-> fn]

UserValidator_parse(v, raw) ==
    IF ~IsUndefined(raw) /\ raw.s \in v._fn.accept THEN Ok(raw) ELSE Fail(v._fn.error)

(* wrappers *)
\* an optional() that copies the required flag of what it wraps
OptionalWrapper_KeepRequired(inner) ==
    BaseValidator(inner._type, inner._required, Undefined, inner._description)
    @@ [cls |-> "OptionalWrapper", _inner |-> inner]

OptionalWrapper(inner) ==
    BaseValidator(inner._type, FALSE, Undefined, inner._description)
    @@ [cls |-> "OptionalWrapper", _inner |-> inner]

DefaultWrapper(inner, defaultValue) ==
    BaseValidator(inner._type, FALSE, defaultValue, inner._description)
    @@ [cls |-> "DefaultWrapper", _inner |-> inner, _defaultValue |-> defaultValue]

DescribedWrapper(inner, description) ==
    BaseValidator(inner._type, inner._required, inner._default, Str(description))
    @@ [cls |-> "DescribedWrapper", _inner |-> inner]

optional(v) == OptionalWrapper(v)
default(v, value) == DefaultWrapper(v, value)
describe(v, description) == DescribedWrapper(v, description)

RECURSIVE Validator_parse(_, _)

\* an optional() for which only undefined is absent
OptionalWrapper_parse_UndefinedOnly(v, raw) ==
    IF IsUndefined(raw) THEN Ok(Undefined) ELSE Validator_parse(v._inner, raw)

\* an optional() that answers undefined where the wrapped validator fails
OptionalWrapper_parse_Swallow(v, raw) ==
    IF IsAbsent(raw) \/ ~Validator_parse(v._inner, raw).ok THEN Ok(Undefined)
    ELSE Validator_parse(v._inner, raw)

OptionalWrapper_parse(v, raw) ==
    IF IsAbsent(raw) THEN Ok(Undefined) ELSE Validator_parse(v._inner, raw)

\* a default() that asks the wrapped validator first
DefaultWrapper_parse_InnerFirst(v, raw) ==
    IF Validator_parse(v._inner, raw).ok THEN Validator_parse(v._inner, raw)
    ELSE IF IsAbsent(raw) THEN Ok(v._defaultValue)
    ELSE Validator_parse(v._inner, raw)

\* a default() for which only undefined is absent
DefaultWrapper_parse_UndefinedOnly(v, raw) ==
    IF IsUndefined(raw) THEN Ok(v._defaultValue) ELSE Validator_parse(v._inner, raw)

DefaultWrapper_parse(v, raw) ==
    IF IsAbsent(raw) THEN Ok(v._defaultValue) ELSE Validator_parse(v._inner, raw)

\* a describe() that lets an absent value through
DescribedWrapper_parse_Lenient(v, raw) ==
    IF IsAbsent(raw) THEN Ok(Undefined) ELSE Validator_parse(v._inner, raw)

DescribedWrapper_parse(v, raw) == Validator_parse(v._inner, raw)

\* validator.parse(raw): dispatch on the receiver's class
Validator_parse(v, raw) ==
    CASE v.cls = "StringValidator" -> StringValidator_parse(v, raw)
      [] v.cls = "NumberValidator" -> NumberValidator_parse(v, raw)
      [] v.cls = "BooleanValidator" -> BooleanValidator_parse(v, raw)
      [] v.cls = "EnumValidator" -> EnumValidator_parse(v, raw)
      [] v.cls = "UrlValidator" -> UrlValidator_parse(v, raw)
      [] v.cls = "EmailValidator" -> EmailValidator_parse(v, raw)
      [] v.cls = "CustomValidator" -> CustomValidator_parse(v, raw)
      [] v.cls = "UserValidator" -> UserValidator_parse(v, raw)
      [] v.cls = "OptionalWrapper" -> OptionalWrapper_parse(v, raw)
      [] v.cls = "DefaultWrapper" -> DefaultWrapper_parse(v, raw)
      [] v.cls = "DescribedWrapper" -> DescribedWrapper_parse(v, raw)

isValidatorMeta(value) == "_type" \in DOMAIN value /\ "_required" \in DOMAIN value

----------------------------------------------------------------------------
(* Objects *)

EmptyObject == [k \in {} |-> Undefined]
\* obj[key] = value
SetProp(obj, key, value) ==
    [k \in DOMAIN obj \cup {key} |-> IF k = key THEN value ELSE obj[k]]
\* obj[key], undefined when the property is not there
Lookup(obj, key) == IF key \in DOMAIN obj THEN obj[key] ELSE Undefined

Entry(key, value) == [key |-> key, value |-> value]
KeysOf(shape) == {shape[i].key : i \in 1..Len(shape)}

\* target[key] = value on an object with insertion order: an existing key
\* keeps its place, a new key goes last
SetEntry(target, key, value) ==
    IF key \in KeysOf(target)
    THEN [i \in 1..Len(target) |->
            IF target[i].key = key THEN Entry(key, value) ELSE target[i]]
    ELSE Append(target, Entry(key, value))

RECURSIVE ObjectAssign(_, _)
ObjectAssign(target, source) ==
    IF source = <<>> THEN target
    ELSE ObjectAssign(SetEntry(target, Head(source).key, Head(source).value),
                      Tail(source))

----------------------------------------------------------------------------
(* schema.ts *)

group(shape, groupOptions) ==
    [_isGroup |-> TRUE,
     _prefix |-> Opt(groupOptions, "prefix"),
     _envSpecific |-> Opt(groupOptions, "envSpecific"),
     shape |-> shape]

isGroupSchema(value) == "_isGroup" \in DOMAIN value /\ value._isGroup = TRUE

EnvError(key, kind, message, received, expected) ==
    [key |-> key, kind |-> kind, message |-> message,
     received |-> received, expected |-> expected]

\* a search that tells upper case from lower case
detectErrorKind_CaseSensitive(message) ==
    IF Includes(message, "required") THEN "missing"
    ELSE IF Includes(message, "type") \/ Includes(message, "expected a")
    THEN "invalid_type"
    ELSE IF Includes(message, "url") \/ Includes(message, "email")
            \/ Includes(message, "pattern")
    THEN "invalid_format"
    ELSE "invalid_value"

detectErrorKind(message) ==
    LET lower == ToLowerCase(message)
    IN IF Includes(lower, "required") THEN "missing"
       ELSE IF Includes(lower, "type") \/ Includes(lower, "expected a")
       THEN "invalid_type"
       ELSE IF Includes(lower, "url") \/ Includes(lower, "email")
               \/ Includes(lower, "pattern")
       THEN "invalid_format"
       ELSE "invalid_value"

\* a kind taken from the message alone
KindOf_MessageOnly(raw, message) == detectErrorKind(message)

\* const kind = raw === undefined || raw === "" ? "missing" : detectErrorKind(...)
KindOf(raw, message) == IF IsAbsent(raw) THEN "missing" ELSE detectErrorKind(message)

\* a merge that never happens
MergedShape_BaseOnly(shape, nodeEnvName, envSpecific) == shape

\* parseFlat, lines 55-59: the shape with the overrides of nodeEnv merged in
MergedShape(shape, nodeEnvName, envSpecific) ==
    IF envSpecific # Undefined /\ Truthy(nodeEnvName)
       /\ nodeEnvName.s \in DOMAIN envSpecific
    THEN ObjectAssign(shape, envSpecific[nodeEnvName.s])
    ELSE shape

\* parseFlat, lines 62-77: one turn of the loop over the merged shape
FlatFieldResult(key, envKey, validator, raw, res, acc) ==
    IF res.ok
    THEN [acc EXCEPT !.values = SetProp(acc.values, key, res.value)]
    ELSE [acc EXCEPT !.errors =
            Append(acc.errors,
                   EnvError(envKey, KindOf(raw, res.error), res.error,
                            raw, validator._type))]

FlatFieldRaw(key, envKey, validator, raw, acc) ==
    FlatFieldResult(key, envKey, validator, raw, Validator_parse(validator, raw), acc)

\* a turn that forgets the prefix
ParseFlatField_NoPrefix(key, validator, envSnapshot, prefix, acc) ==
    FlatFieldRaw(key, key, validator, Lookup(envSnapshot, key), acc)

ParseFlatField(key, validator, envSnapshot, prefix, acc) ==
    LET envKey == IF prefix # "" THEN prefix \o key ELSE key
    IN FlatFieldRaw(key, envKey, validator, Lookup(envSnapshot, envKey), acc)

\* parseFlat, lines 61-78: the loop over the merged shape
RECURSIVE ParseFlatLoop(_, _, _, _)
ParseFlatLoop(entries, envSnapshot, prefix, acc) ==
    IF entries = <<>> THEN acc
    ELSE ParseFlatLoop(Tail(entries), envSnapshot, prefix,
                       ParseFlatField(Head(entries).key, Head(entries).value,
                                      envSnapshot, prefix, acc))

parseFlat(shape, envSnapshot, prefix, nodeEnvName, envSpecific) ==
    ParseFlatLoop(MergedShape(shape, nodeEnvName, envSpecific), envSnapshot, prefix,
                  [values |-> EmptyObject, errors |-> <<>>])

\* EnvGuardian.parse, lines 128-160: one turn of the loop over the schema
\* lines 136-137: the group's values and errors go into the accumulators
GroupResult(key, flat, acc) ==
    [result |-> SetProp(acc.result, key, flat.values),
     allErrors |-> acc.allErrors \o flat.errors]

\* lines 143-158: the field's value or its error goes into the accumulators
FieldResult(key, validator, raw, parseResult, acc) ==
    IF parseResult.ok
    THEN [acc EXCEPT !.result = SetProp(acc.result, key, parseResult.value)]
    ELSE [acc EXCEPT !.allErrors =
            Append(acc.allErrors,
                   EnvError(key, KindOf(raw, parseResult.error),
                            parseResult.error, raw, validator._type))]

FieldRaw(key, validator, raw, acc) ==
    FieldResult(key, validator, raw, Validator_parse(validator, raw), acc)

ParseSchemaEntry(key, value, envSnapshot, nodeEnvName, acc) ==
    IF isGroupSchema(value)
    THEN GroupResult(key,
                     parseFlat(value.shape, envSnapshot,
                               Coalesce(value._prefix, Str("")).s,
                               nodeEnvName, value._envSpecific),
                     acc)
    ELSE IF isValidatorMeta(value)
    THEN FieldRaw(key, value, Lookup(envSnapshot, key), acc)
    ELSE acc

\* a loop that gives up at the first entry in error
RECURSIVE ParseSchemaLoop_StopAtFirstError(_, _, _, _)
ParseSchemaLoop_StopAtFirstError(entries, envSnapshot, nodeEnvName, acc) ==
    IF entries = <<>> \/ acc.allErrors # <<>> THEN acc
    ELSE ParseSchemaLoop_StopAtFirstError(
            Tail(entries), envSnapshot, nodeEnvName,
            ParseSchemaEntry(Head(entries).key, Head(entries).value,
                             envSnapshot, nodeEnvName, acc))

\* EnvGuardian.parse, lines 127-161: the loop over the schema
RECURSIVE ParseSchemaLoop(_, _, _, _)
ParseSchemaLoop(entries, envSnapshot, nodeEnvName, acc) ==
    IF entries = <<>> THEN acc
    ELSE ParseSchemaLoop(Tail(entries), envSnapshot, nodeEnvName,
                         ParseSchemaEntry(Head(entries).key, Head(entries).value,
                                          envSnapshot, nodeEnvName, acc))

\* allErrors.findIndex((e) => e.key === key), 0 for -1
FindIndex(errors, key) ==
    LET hits == {i \in 1..Len(errors) : errors[i].key = key}
    IN IF hits = {} THEN 0 ELSE CHOOSE i \in hits : \A j \in hits : i <= j

\* allErrors.splice(idx, 1)
Splice(errors, idx) == SubSeq(errors, 1, idx - 1) \o SubSeq(errors, idx + 1, Len(errors))

\* EnvGuardian.parse, lines 167-192: one key of the active override table
\* a patch that moves the rewritten error to the end of the list
PatchError_MoveToEnd(errors, idx, patched) ==
    Append(IF idx # 0
           THEN SubSeq(errors, 1, idx - 1) \o SubSeq(errors, idx + 1, Len(errors))
           ELSE errors,
           patched)

\* lines 177-191: the error of the key is rewritten where it stands, or pushed
PatchError(errors, idx, patched) ==
    IF idx # 0 THEN [errors EXCEPT ![idx] = patched] ELSE Append(errors, patched)

OverrideResult(acc, key, validator, raw, parseResult, idx) ==
    IF parseResult.ok
    THEN [result |-> SetProp(acc.result, key, parseResult.value),
          allErrors |-> IF idx # 0 THEN Splice(acc.allErrors, idx)
                        ELSE acc.allErrors]
    ELSE [result |-> acc.result,
          allErrors |-> PatchError(acc.allErrors, idx,
                                   EnvError(key, KindOf(raw, parseResult.error),
                                            parseResult.error, raw, validator._type))]

OverrideRaw(acc, key, validator, raw) ==
    OverrideResult(acc, key, validator, raw, Validator_parse(validator, raw),
                   FindIndex(acc.allErrors, key))

ApplyOverride(acc, key, validator, envSnapshot) ==
    OverrideRaw(acc, key, validator, Lookup(envSnapshot, key))

RECURSIVE OverrideLoop(_, _, _)
OverrideLoop(entries, envSnapshot, acc) ==
    IF entries = <<>> THEN acc
    ELSE OverrideLoop(Tail(entries), envSnapshot,
                      ApplyOverride(acc, Head(entries).key, Head(entries).value,
                                    envSnapshot))

\* EnvGuardian.parse, line 164
OverridesActive(table, nodeEnvName) ==
    table # Undefined /\ Truthy(nodeEnvName) /\ nodeEnvName.s \in DOMAIN table

(* The formatter.  The picocolors calls are left out: they wrap a text in  *)
(* colour codes on a terminal and return it as it is elsewhere.  The       *)
(* characters outside ASCII are written with ASCII ones: the icons of      *)
(* "missing" and "error" as "x", the warning sign as "!", the check mark   *)
(* as "v", the arrow as "->" and each box-drawing dash as "-".             *)
ICONS ==
    [missing |-> "x", invalid_type |-> "!", invalid_format |-> "!",
     invalid_value |-> "!", success |-> "v", error |-> "x"]

KindLabel(kind) ==
    CASE kind = "invalid_type" -> "invalid type"
      [] kind = "invalid_format" -> "invalid format"
      [] kind = "invalid_value" -> "invalid value"

\* Array.prototype.filter(Boolean) on strings
FilterBoolean(lines) == SelectSeq(lines, LAMBDA l : l # "")

formatError(err) ==
    IF err.kind = "missing"
    THEN "  " \o ICONS[err.kind] \o " " \o err.key \o " -> missing required variable"
    ELSE Join(FilterBoolean(
                <<"  " \o ICONS[err.kind] \o " " \o err.key \o " -> " \o KindLabel(err.kind),
                  IF ~IsUndefined(err.received)
                  THEN "    received:  " \o err.received.s ELSE "",
                  "    expected:  " \o err.expected,
                  "    message:   " \o err.message>>), "\n")

FormatEach(errs) == [j \in 1..Len(errs) |-> formatError(errs[j])]

\* a section that is written even when it has no error
ErrorSection_Always(title, errs) ==
    <<"  -- " \o title \o " (" \o IntToDigits(Len(errs)) \o ") ------------------">>
    \o FormatEach(errs) \o <<"">>

\* one section of formatErrors: its title with the count, its errors, ""
ErrorSection(title, errs) ==
    IF Len(errs) > 0
    THEN <<"  -- " \o title \o " (" \o IntToDigits(Len(errs)) \o ") ------------------">>
         \o FormatEach(errs) \o <<"">>
    ELSE <<>>

ErrorHeader(n) ==
    "  x env-guardian: Validation failed"
    \o " (" \o IntToDigits(n) \o " error" \o (IF n # 1 THEN "s" ELSE "") \o ")"

formatErrors(errors, source) ==
    Join(<<"", ErrorHeader(Len(errors)), "  Source: " \o source, "">>
         \o ErrorSection("Missing Variables",
                         SelectSeq(errors, LAMBDA e : e.kind = "missing"))
         \o ErrorSection("Invalid Variables",
                         SelectSeq(errors, LAMBDA e : e.kind # "missing"))
         \o <<"  -------------------------------------------------",
              "  Fix the above errors in your .env file or environment and restart.",
              "">>,
         "\n")

\* new EnvValidationError(errors), source = "env"
EnvValidationError(errors) ==
    [name |-> "EnvValidationError", errors |-> errors,
     message |-> formatErrors(errors, "env")]

\* EnvGuardian.parse, lines 196-200: throw the error list or return the result
ParseOutcome(res, errors) ==
    IF Len(errors) > 0
    THEN [threw |-> TRUE] @@ EnvValidationError(errors)
    ELSE [threw |-> FALSE, value |-> res]

\* a validate() that swallows the error it catches
ValidateOutcome_Swallow(parsed) == [threw |-> FALSE, value |-> <<>>]

\* EnvGuardian.validate around the outcome of its call of parse
ValidateOutcome(parsed) ==
    IF parsed.threw
    THEN [threw |-> FALSE, value |-> parsed.errors]
    ELSE [threw |-> FALSE, value |-> <<>>]

(* EnvGuardian.introspect *)
IntrospectedField(key, groupKey, v) ==
    [key |-> key, group |-> groupKey, type |-> v._type, required |-> v._required,
     default |-> v._default, description |-> v._description]

\* value._prefix ? prefix + fieldKey : fieldKey
PrefixedKey(g, fieldKey) ==
    IF Truthy(g._prefix) THEN g._prefix.s \o fieldKey ELSE fieldKey

\* a group whose fields are listed under their bare names
IntrospectGroup_NoPrefix(key, g) ==
    [j \in 1..Len(g.shape) |->
        IntrospectedField(g.shape[j].key, Str(key), g.shape[j].value)]

IntrospectGroup(key, g) ==
    [j \in 1..Len(g.shape) |->
        IntrospectedField(PrefixedKey(g, g.shape[j].key), Str(key), g.shape[j].value)]

IntrospectEntry(e) ==
    IF isGroupSchema(e.value) THEN IntrospectGroup(e.key, e.value)
    ELSE IF isValidatorMeta(e.value)
    THEN <<IntrospectedField(e.key, Undefined, e.value)>>
    ELSE <<>>

RECURSIVE IntrospectLoop(_)
IntrospectLoop(sch) ==
    IF sch = <<>> THEN <<>> ELSE IntrospectEntry(Head(sch)) \o IntrospectLoop(Tail(sch))

introspect(sch) == [fields |-> IntrospectLoop(sch)]

(* EnvGuardian.generateExample *)
\* meta.join(" | ") of formatExampleEntry
ExampleMeta(validator) ==
    Join(<<"type: " \o validator._type>>
         \o (IF ~validator._required THEN <<"optional">> ELSE <<>>)
         \o (IF ~IsUndefined(validator._default)
             THEN <<"default: " \o JsString(validator._default)>> ELSE <<>>),
         " | ")

\* an entry that writes the default whatever includeDefaults is
formatExampleEntry_AlwaysDefault(key, validator, exOptions) ==
    (IF exOptions.comments /\ Truthy(validator._description)
     THEN <<"# " \o validator._description.s>> ELSE <<>>)
    \o (IF exOptions.comments THEN <<"# " \o ExampleMeta(validator)>> ELSE <<>>)
    \o <<key \o "=" \o (IF ~IsUndefined(validator._default)
                         THEN JsString(validator._default) ELSE "")>>

formatExampleEntry(key, validator, exOptions) ==
    (IF exOptions.comments /\ Truthy(validator._description)
     THEN <<"# " \o validator._description.s>> ELSE <<>>)
    \o (IF exOptions.comments THEN <<"# " \o ExampleMeta(validator)>> ELSE <<>>)
    \o <<key \o "=" \o (IF exOptions.includeDefaults /\ ~IsUndefined(validator._default)
                         THEN JsString(validator._default) ELSE "")>>

RECURSIVE ExampleGroupLoop(_, _, _)
ExampleGroupLoop(g, shape, exOptions) ==
    IF shape = <<>> THEN <<>>
    ELSE formatExampleEntry(PrefixedKey(g, Head(shape).key), Head(shape).value, exOptions)
         \o ExampleGroupLoop(g, Tail(shape), exOptions)

\* the header of a group is drawn with two box-drawing dashes on either
\* side of the key; they are written here as "--"
ExampleEntry(e, exOptions) ==
    IF isGroupSchema(e.value)
    THEN (IF exOptions.comments THEN <<"# -- " \o e.key \o " --">> ELSE <<>>)
         \o ExampleGroupLoop(e.value, e.value.shape, exOptions)
         \o <<"">>
    ELSE IF isValidatorMeta(e.value) THEN formatExampleEntry(e.key, e.value, exOptions)
    ELSE <<>>

RECURSIVE ExampleLoop(_, _)
ExampleLoop(sch, exOptions) ==
    IF sch = <<>> THEN <<>>
    ELSE ExampleEntry(Head(sch), exOptions) \o ExampleLoop(Tail(sch), exOptions)

\* const { comments = true, includeDefaults = true } = options
ExampleOptions(exOptions) ==
    [comments |-> Coalesce(Opt(exOptions, "comments"), Bool(TRUE)).b,
     includeDefaults |-> Coalesce(Opt(exOptions, "includeDefaults"), Bool(TRUE)).b]

ExampleHeader(exOptions) ==
    IF exOptions.comments
    THEN <<"# Generated by env-guardian",
           "# Fill in the required values before running the application", "">>
    ELSE <<>>

ExampleLines(sch, exOptions) == ExampleHeader(exOptions) \o ExampleLoop(sch, exOptions)

generateExample(sch, exOptions) == Join(ExampleLines(sch, ExampleOptions(exOptions)), "\n")

----------------------------------------------------------------------------
(* Actions *)

NoOptions == [k \in {} |-> Undefined]
NoCall == [method |-> "none"]

\* a forEnv() that merges its table into the one that is there
ForEnv_Merge(envSpecific) ==
    /\ pc = "idle"
    /\ globalEnvSpecific' =
          IF globalEnvSpecific = Undefined THEN envSpecific
          ELSE [k \in DOMAIN globalEnvSpecific \cup DOMAIN envSpecific |->
                   IF k \in DOMAIN envSpecific THEN envSpecific[k]
                   ELSE globalEnvSpecific[k]]
    /\ UNCHANGED <<objects, schema, processEnv, pc, mode, options, env, nodeEnv, result,
                   allErrors, out>>

\* forEnv(envSpecific)
ForEnv(envSpecific) ==
    /\ pc = "idle"
    /\ globalEnvSpecific' = envSpecific
    /\ UNCHANGED <<objects, schema, processEnv, pc, mode, options, env, nodeEnv, result,
                   allErrors, out>>

\* the schema with the overrides of the environment name n written into
\* the shapes of its groups
MergedInPlace(sch, n) ==
    [i \in 1..Len(sch) |->
        IF isGroupSchema(sch[i].value)
        THEN Entry(sch[i].key,
                   [sch[i].value EXCEPT
                       !.shape = MergedShape(sch[i].value.shape, n,
                                             sch[i].value._envSpecific)])
        ELSE sch[i]]

\* a base pass that merges the overrides of a group into the group itself
ParseBase_MergeInPlace(method, opts) ==
    /\ pc = "idle"
    /\ LET e == IF Opt(opts, "env") = Undefined THEN processEnv ELSE opts.env
           n == Coalesce(Opt(opts, "nodeEnv"), Lookup(processEnv, "NODE_ENV"))
           acc == ParseSchemaLoop(schema, e, n,
                                  [result |-> EmptyObject, allErrors |-> <<>>])
       IN /\ env' = e
          /\ nodeEnv' = n
          /\ result' = acc.result
          /\ allErrors' = acc.allErrors
          /\ schema' = MergedInPlace(schema, n)
    /\ mode' = method
    /\ options' = opts
    /\ pc' = "overrides"
    /\ UNCHANGED <<objects, globalEnvSpecific, processEnv, out>>

\* parse(opts), or validate(opts) calling it: lines 121-161
ParseBase(method, opts) ==
    /\ pc = "idle"
    /\ LET e == IF Opt(opts, "env") = Undefined THEN processEnv ELSE opts.env
           n == Coalesce(Opt(opts, "nodeEnv"), Lookup(processEnv, "NODE_ENV"))
           acc == ParseSchemaLoop(schema, e, n,
                                  [result |-> EmptyObject, allErrors |-> <<>>])
       IN /\ env' = e
          /\ nodeEnv' = n
          /\ result' = acc.result
          /\ allErrors' = acc.allErrors
    /\ mode' = method
    /\ options' = opts
    /\ pc' = "overrides"
    /\ UNCHANGED <<objects, schema, globalEnvSpecific, processEnv, out>>

\* parse(), lines 163-194
ParseOverrides ==
    /\ pc = "overrides"
    /\ LET acc == IF OverridesActive(globalEnvSpecific, nodeEnv)
                  THEN OverrideLoop(globalEnvSpecific[nodeEnv.s], env,
                                    [result |-> result, allErrors |-> allErrors])
                  ELSE [result |-> result, allErrors |-> allErrors]
       IN /\ result' = acc.result
          /\ allErrors' = acc.allErrors
    /\ pc' = "finish"
    /\ UNCHANGED <<objects, schema, globalEnvSpecific, processEnv, mode, options, env, nodeEnv,
                   out>>

\* parse(), lines 196-200, and the return or catch of validate() around it
ParseFinish ==
    /\ pc = "finish"
    /\ LET parsed == ParseOutcome(result, allErrors)
       IN out' = [method |-> mode,
                  parse |-> parsed,
                  ret |-> IF mode = "validate" THEN ValidateOutcome(parsed)
                          ELSE parsed]
    /\ pc' = "returned"
    /\ UNCHANGED <<objects, schema, globalEnvSpecific, processEnv, mode, options, env, nodeEnv,
                   result, allErrors>>

\* the caller goes on: the call's arguments, locals and outcome are gone
Resume ==
    /\ pc = "returned"
    /\ pc' = "idle"
    /\ mode' = "none"
    /\ options' = NoOptions
    /\ env' = EmptyObject
    /\ nodeEnv' = Undefined
    /\ result' = EmptyObject
    /\ allErrors' = <<>>
    /\ out' = NoCall
    /\ UNCHANGED <<objects, schema, globalEnvSpecific, processEnv>>

\* introspect()
Introspect ==
    /\ pc = "idle"
    /\ out' = [method |-> "introspect", ret |-> introspect(schema)]
    /\ pc' = "returned"
    /\ UNCHANGED <<objects, schema, globalEnvSpecific, processEnv, mode, options,
                   env, nodeEnv, result, allErrors>>

\* generateExample(exampleOptions)
GenerateExample(exampleOptions) ==
    /\ pc = "idle"
    /\ out' = [method |-> "generateExample", exOptions |-> exampleOptions,
               ret |-> generateExample(schema, exampleOptions)]
    /\ pc' = "returned"
    /\ UNCHANGED <<objects, schema, globalEnvSpecific, processEnv, mode, options,
                   env, nodeEnv, result, allErrors>>

(* The caller builds validators.  Every call of optional(), default() and  *)
(* describe() constructs one more object; the fields of BaseValidator are  *)
(* readonly, so no call writes to an object that is there already.         *)
MaxObjects == 4

\* a describe() that writes the text into its receiver and returns it
CallDescribe_InPlace(i, description) ==
    /\ pc = "idle"
    /\ i \in 1..Len(objects)
    /\ Len(objects) < MaxObjects
    /\ objects' = Append([objects EXCEPT ![i]._description = Str(description)],
                         [objects[i] EXCEPT !._description = Str(description)])
    /\ UNCHANGED <<schema, globalEnvSpecific, processEnv, pc, mode, options, env,
                   nodeEnv, result, allErrors, out>>

\* objects[i].optional()
CallOptional(i) ==
    /\ pc = "idle"
    /\ i \in 1..Len(objects)
    /\ Len(objects) < MaxObjects
    /\ objects' = Append(objects, optional(objects[i]))
    /\ UNCHANGED <<schema, globalEnvSpecific, processEnv, pc, mode, options, env,
                   nodeEnv, result, allErrors, out>>

\* objects[i].default(value)
CallDefault(i, value) ==
    /\ pc = "idle"
    /\ i \in 1..Len(objects)
    /\ Len(objects) < MaxObjects
    /\ objects' = Append(objects, default(objects[i], value))
    /\ UNCHANGED <<schema, globalEnvSpecific, processEnv, pc, mode, options, env,
                   nodeEnv, result, allErrors, out>>

\* objects[i].describe(description)
CallDescribe(i, description) ==
    /\ pc = "idle"
    /\ i \in 1..Len(objects)
    /\ Len(objects) < MaxObjects
    /\ objects' = Append(objects, describe(objects[i], description))
    /\ UNCHANGED <<schema, globalEnvSpecific, processEnv, pc, mode, options, env,
                   nodeEnv, result, allErrors, out>>

\* objects[i].parse(raw), called by the caller itself
CallParse(i, raw) ==
    /\ pc = "idle"
    /\ i \in 1..Len(objects)
    /\ out' = [method |-> "Validator.parse", self |-> i, raw |-> raw,
               ret |-> Validator_parse(objects[i], raw)]
    /\ pc' = "returned"
    /\ UNCHANGED <<objects, schema, globalEnvSpecific, processEnv, mode, options,
                   env, nodeEnv, result, allErrors>>

\* defineEnv({ V: objects[i] }): a new EnvGuardian, with no forEnv() table
DefineEnv(i) ==
    /\ pc = "idle"
    /\ i \in 1..Len(objects)
    /\ schema' = <<Entry("V", objects[i])>>
    /\ globalEnvSpecific' = Undefined
    /\ UNCHANGED <<objects, processEnv, pc, mode, options, env, nodeEnv, result,
                   allErrors, out>>

(* The modifiers of NumberValidator: each constructs one more object and   *)
(* returns it; ret is the place of that object among the objects.          *)
Built(method, i, arg) ==
    [method |-> method, self |-> i, arg |-> arg, ret |-> Len(objects) + 1]

\* objects[i].min(value)
CallMin(i, value) ==
    /\ pc = "idle"
    /\ i \in 1..Len(objects)
    /\ Len(objects) < MaxObjects
    /\ objects' = Append(objects, NumberValidator_min(objects[i], value))
    /\ out' = Built("NumberValidator.min", i, value)
    /\ pc' = "returned"
    /\ UNCHANGED <<schema, globalEnvSpecific, processEnv, mode, options, env,
                   nodeEnv, result, allErrors>>

\* objects[i].max(value)
CallMax(i, value) ==
    /\ pc = "idle"
    /\ i \in 1..Len(objects)
    /\ Len(objects) < MaxObjects
    /\ objects' = Append(objects, NumberValidator_max(objects[i], value))
    /\ out' = Built("NumberValidator.max", i, value)
    /\ pc' = "returned"
    /\ UNCHANGED <<schema, globalEnvSpecific, processEnv, mode, options, env,
                   nodeEnv, result, allErrors>>

\* objects[i].int()
CallInt(i) ==
    /\ pc = "idle"
    /\ i \in 1..Len(objects)
    /\ Len(objects) < MaxObjects
    /\ objects' = Append(objects, NumberValidator_int(objects[i]))
    /\ out' = Built("NumberValidator.int", i, Undefined)
    /\ pc' = "returned"
    /\ UNCHANGED <<schema, globalEnvSpecific, processEnv, mode, options, env,
                   nodeEnv, result, allErrors>>

\* objects[i].port()
CallPort(i) ==
    /\ pc = "idle"
    /\ i \in 1..Len(objects)
    /\ Len(objects) < MaxObjects
    /\ objects' = Append(objects, NumberValidator_port(objects[i]))
    /\ out' = Built("NumberValidator.port", i, Undefined)
    /\ pc' = "returned"
    /\ UNCHANGED <<schema, globalEnvSpecific, processEnv, mode, options, env,
                   nodeEnv, result, allErrors>>

----------------------------------------------------------------------------
(* The inputs of the specification Spec: schemas that mix top-level fields *)
(* and groups, with and without a prefix, whose variable names may meet.   *)

MaxEntries == 2

\* a caller's validator that accepts "x" and answers anything else, an absent
\* value included, with a message of its own
userValidator == UserValidator("user", TRUE, CustomFn({"x"}, "Bad value"))

EntryPool ==
    { Entry("A", string),
      Entry("A", number),
      Entry("A", optional(number)),
      Entry("G_A", string),
      Entry("G_A", userValidator),
      Entry("g", group(<<Entry("A", number), Entry("B", userValidator)>>, NoOptions)),
      Entry("g", group(<<Entry("A", string), Entry("B", number)>>,
                       [prefix |-> Str("G_")])),
      Entry("g", group(<<Entry("A", string), Entry("B", optional(string))>>,
                       [prefix |-> Str("G_"),
                        envSpecific |->
                            [test |-> <<Entry("A", default(number, Num(7, 0))),
                                        Entry("C", string)>>]])),
      Entry("h", group(<<Entry("A", string)>>,
                       [envSpecific |->
                            [dev |-> <<Entry("A", optional(string))>>]])) }

RECURSIVE SchemasOfLen(_)
SchemasOfLen(n) ==
    IF n = 0 THEN {<<>>}
    ELSE {Append(sch, e) : <<sch, e>> \in
            {pair \in SchemasOfLen(n - 1) \X EntryPool :
                pair[2].key \notin KeysOf(pair[1])}}

Schemas == UNION {SchemasOfLen(n) : n \in 1..MaxEntries}

Tables ==
    { [dev |-> <<Entry("A", default(string, Str("d")))>>],
      [dev |-> <<Entry("A", number), Entry("G_A", optional(number))>>],
      [dev |-> <<Entry("g", optional(string))>>,
       test |-> <<Entry("A", userValidator)>>] }

RawA == {Undefined, Str(""), Str("x"), Str("5")}
RawGA == {Undefined, Str("x")}
Envs == {[A |-> a, G_A |-> g] : a \in RawA, g \in RawGA}

ProcessEnvs ==
    { [A |-> Undefined, G_A |-> Undefined, NODE_ENV |-> Undefined],
      [A |-> Str("x"), G_A |-> Undefined, NODE_ENV |-> Str("dev")] }

NodeEnvs == {Str(""), Str("dev"), Str("test")}

OptionsPool ==
    {[env |-> e, nodeEnv |-> n] : e \in Envs, n \in NodeEnvs}
    \cup {[env |-> e] : e \in Envs}
    \cup {[nodeEnv |-> Str("dev")], NoOptions}

Methods == {"parse", "validate"}

InitWith(heaps, schemas, processEnvs) ==
    /\ objects \in heaps
    /\ schema \in schemas
    /\ globalEnvSpecific = Undefined
    /\ processEnv \in processEnvs
    /\ pc = "idle"
    /\ mode = "none"
    /\ options = NoOptions
    /\ env = EmptyObject
    /\ nodeEnv = Undefined
    /\ result = EmptyObject
    /\ allErrors = <<>>
    /\ out = NoCall

Init == InitWith({<<>>}, Schemas, ProcessEnvs)

Next ==
    \/ \E t \in Tables : ForEnv(t)
    \/ \E m \in Methods, o \in OptionsPool : ParseBase(m, o)
    \/ ParseOverrides
    \/ ParseFinish
    \/ Resume

Spec == Init /\ [][Next]_vars

----------------------------------------------------------------------------
(* What the claims speak of *)

\* the fields an entry of the schema declares for the environment name n:
\* where each is read (envKey), where its value goes (group, local) and the
\* validator the claims expect to run
FieldsOfEntry(e, n) ==
    IF isGroupSchema(e.value)
    THEN LET active == /\ e.value._envSpecific # Undefined
                       /\ n.t = "string" /\ n.s # ""
                       /\ n.s \in DOMAIN e.value._envSpecific
             over == IF active THEN e.value._envSpecific[n.s] ELSE <<>>
             base == e.value.shape
             new == SelectSeq(over, LAMBDA o : o.key \notin KeysOf(base))
             pick(b) == IF b.key \in KeysOf(over)
                        THEN (CHOOSE o \in {over[i] : i \in 1..Len(over)} :
                                o.key = b.key).value
                        ELSE b.value
             p == IF e.value._prefix = Undefined THEN "" ELSE e.value._prefix.s
         IN [i \in 1..(Len(base) + Len(new)) |->
                LET f == IF i <= Len(base) THEN Entry(base[i].key, pick(base[i]))
                         ELSE new[i - Len(base)]
                IN [envKey |-> p \o f.key, local |-> f.key, group |-> Str(e.key),
                    validator |-> f.value]]
    ELSE <<[envKey |-> e.key, local |-> e.key, group |-> Undefined,
            validator |-> e.value]>>

RECURSIVE FieldsOf(_, _)
FieldsOf(sch, n) ==
    IF sch = <<>> THEN <<>> ELSE FieldsOfEntry(Head(sch), n) \o FieldsOf(Tail(sch), n)

GroupOverrideActive(n) ==
    \E i \in 1..Len(schema) :
        /\ isGroupSchema(schema[i].value)
        /\ schema[i].value._envSpecific # Undefined
        /\ Truthy(n)
        /\ n.s \in DOMAIN schema[i].value._envSpecific

\* the call has come back and nothing of it is gone yet
Returned == pc = "returned"

\* the error list the caller of the last call holds: thrown by parse(),
\* returned by validate()
ReportedErrors ==
    IF out.method = "validate" THEN out.ret.value
    ELSE IF out.ret.threw THEN out.ret.errors ELSE <<>>

AllRequiredAndUnset ==
    LET fields == FieldsOf(schema, nodeEnv)
    IN /\ ~OverridesActive(globalEnvSpecific, nodeEnv)
       /\ ~GroupOverrideActive(nodeEnv)
       /\ \A i \in 1..Len(fields) :
            /\ fields[i].validator._required
            /\ IsUndefined(Lookup(env, fields[i].envKey))

\* C1: with no override active, every field required and none of their
\* variables set, the call reports exactly one error per declared field, in
\* declaration order, each of kind "missing": no field is skipped because an
\* earlier one failed.
C1_AllErrorsReported ==
    (Returned /\ AllRequiredAndUnset) =>
        LET fields == FieldsOf(schema, nodeEnv)
        IN /\ Len(ReportedErrors) = Len(fields)
           /\ \A i \in 1..Len(fields) :
                /\ ReportedErrors[i].key = fields[i].envKey
                /\ ReportedErrors[i].kind = "missing"

C1_Witness ==
    /\ Returned /\ AllRequiredAndUnset
    /\ out.method = "validate"
    /\ Len(schema) = 2
    /\ Len(ReportedErrors) = 3
    /\ isGroupSchema(schema[2].value)

\* C2: validate() returns the empty list exactly when the parse() it runs
\* returns a value, and otherwise exactly the error list parse() throws;
\* parse() throws exactly when at least one error was accumulated, carrying
\* the accumulated list; validate() itself never throws.
C2_ValidateAgreesWithParse ==
    Returned =>
        /\ out.parse.threw <=> (Len(allErrors) > 0)
        /\ out.parse.threw => out.parse.errors = allErrors
        /\ ~out.parse.threw => out.parse.value = result
        /\ out.method = "parse" => out.ret = out.parse
        /\ out.method = "validate" =>
            /\ ~out.ret.threw
            /\ (out.ret.value = <<>>) <=> ~out.parse.threw
            /\ out.parse.threw => out.ret.value = allErrors

C2_Witness ==
    /\ Returned
    /\ out.method = "validate"
    /\ Len(out.ret.value) >= 2
    /\ OverridesActive(globalEnvSpecific, nodeEnv)

\* parse() has run to its last statement: the throw or the return is next
AtEnd == pc = "finish"

ErrorsFor(key) == SelectSeq(allErrors, LAMBDA e : e.key = key)

\* no two declared fields are read from the same variable
NoKeyClash ==
    LET fields == FieldsOf(schema, nodeEnv)
    IN \A i, j \in 1..Len(fields) : fields[i].envKey = fields[j].envKey => i = j

\* C3: at the end of a parse computation every field has a stored value and
\* no error, or exactly one error and no stored value.  Stated here for the
\* top-level fields of schemas whose fields are read from distinct variables.
C3_ValueXorError ==
    (AtEnd /\ NoKeyClash) =>
        \A i \in 1..Len(schema) :
            isValidatorMeta(schema[i].value) =>
                LET key == schema[i].key
                    stored == key \in DOMAIN result
                    errs == Len(ErrorsFor(key))
                IN (stored /\ errs = 0) \/ (~stored /\ errs = 1)

\* C4: for every key of the override table of the active environment name
\* the final outcome is the override validator's outcome on env[key]: its
\* value and no error for the key, or exactly one error for the key carrying
\* the override's message, kind and expected type.
C4_OverrideDecides ==
    (AtEnd /\ OverridesActive(globalEnvSpecific, nodeEnv)) =>
        LET overrides == globalEnvSpecific[nodeEnv.s]
        IN \A i \in 1..Len(overrides) :
            LET key == overrides[i].key
                raw == Lookup(env, key)
                r == Validator_parse(overrides[i].value, raw)
                errs == ErrorsFor(key)
            IN IF r.ok
               THEN /\ key \in DOMAIN result
                    /\ result[key] = r.value
                    /\ errs = <<>>
               ELSE /\ Len(errs) = 1
                    /\ errs[1].message = r.error
                    /\ errs[1].kind = (IF IsAbsent(raw) THEN "missing"
                                       ELSE detectErrorKind(r.error))
                    /\ errs[1].expected = overrides[i].value._type

RECURSIVE IsSubsequence(_, _)
IsSubsequence(a, b) ==
    IF a = <<>> THEN TRUE
    ELSE IF b = <<>> THEN FALSE
    ELSE IF Head(a) = Head(b) THEN IsSubsequence(Tail(a), Tail(b))
    ELSE IsSubsequence(a, Tail(b))

\* what parseFlat gave for the group entry e of the running call
FlatOf(e) ==
    parseFlat(e.value.shape, env, Coalesce(e.value._prefix, Str("")).s, nodeEnv,
              e.value._envSpecific)

RECURSIVE GroupErrors(_)
GroupErrors(sch) ==
    IF sch = <<>> THEN <<>>
    ELSE (IF isGroupSchema(Head(sch).value) THEN FlatOf(Head(sch)).errors ELSE <<>>)
         \o GroupErrors(Tail(sch))

\* C5: applying the forEnv table leaves every group's nested value object
\* as parseFlat built it, and every error a group field produced in the list,
\* unaltered and in order.
C5_OverridesLeaveGroupsAlone ==
    AtEnd =>
        /\ \A i \in 1..Len(schema) :
            isGroupSchema(schema[i].value) =>
                /\ schema[i].key \in DOMAIN result
                /\ result[schema[i].key] = FlatOf(schema[i]).values
        /\ IsSubsequence(GroupErrors(schema), allErrors)

\* the base pass is over and no top-level override has touched its results
BasePassStands ==
    \/ pc = "overrides"
    \/ pc \in {"finish", "returned"} /\ ~OverridesActive(globalEnvSpecific, nodeEnv)

Outcome(f) == Validator_parse(f.validator, Lookup(env, f.envKey))

\* C6: a group's fields are parsed with the validators of the shallow merge:
\* the override's validator for each field the active environment name's
\* entry names, the base validator for every other field, and the base
\* validator throughout when the name is absent, empty or has no entry.
C6_GroupOverrideMerge ==
    BasePassStands =>
        \A i \in 1..Len(schema) :
            isGroupSchema(schema[i].value) =>
                LET fields == FieldsOfEntry(schema[i], nodeEnv)
                    vals == result[schema[i].key]
                IN /\ DOMAIN vals \subseteq {fields[j].local : j \in 1..Len(fields)}
                   /\ \A j \in 1..Len(fields) :
                        LET f == fields[j]
                            r == Outcome(f)
                        IN IF r.ok
                           THEN f.local \in DOMAIN vals /\ vals[f.local] = r.value
                           ELSE /\ f.local \notin DOMAIN vals
                                /\ \E k \in 1..Len(allErrors) :
                                     /\ allErrors[k].key = f.envKey
                                     /\ allErrors[k].message = r.error
                                     /\ allErrors[k].expected = f.validator._type

C6_Witness ==
    /\ pc = "overrides"
    /\ \E i \in 1..Len(schema) :
        /\ isGroupSchema(schema[i].value)
        /\ schema[i].value._envSpecific # Undefined
        /\ Truthy(nodeEnv)
        /\ nodeEnv.s \in DOMAIN schema[i].value._envSpecific
        /\ "A" \in DOMAIN result[schema[i].key]
        /\ result[schema[i].key]["A"] = Num(7, 0)
        /\ \E k \in 1..Len(allErrors) : allErrors[k].key = "G_C"

ErrorKeys(errors) == [i \in 1..Len(errors) |-> errors[i].key]

C8_AbsentIsMissing ==
    \A i \in 1..Len(allErrors) :
        LET raw == Lookup(env, allErrors[i].key)
        IN /\ allErrors[i].received = raw
           /\ IsAbsent(raw) => allErrors[i].kind = "missing"

C8_Witness ==
    /\ AtEnd
    /\ OverridesActive(globalEnvSpecific, nodeEnv)
    /\ Len(allErrors) = 3
    /\ \A i \in 1..3 :
        /\ allErrors[i].message = "Bad value"
        /\ IsAbsent(allErrors[i].received)
        /\ allErrors[i].kind = "missing"
    /\ \E i \in 1..3 : allErrors[i].received = Str("")

----------------------------------------------------------------------------
(* The inputs of the specification SpecKinds: one field, met at the top    *)
(* level, in a prefixed group or in a forEnv table, whose validator fails  *)
(* with each of the messages the library and its callers produce.          *)

fnMessages ==
    { "Value REQUIRED by type", "Wrong Type for URL", "Expected A valid email",
      "Bad URL", "PATTERN mismatch", "Out of range" }

KindValidators ==
    { number, NumberValidator_min(number, Num(10, 0)), boolean,
      enumValidator(<<"a", "b">>), StringValidator_min(string, Num(9, 0)),
      StringValidator_matches(string, RegExp("^[a-z]+$", LowerChars)),
      url, email }
    \cup {CustomValidator(CustomFn({"ok"}, m), "custom") : m \in fnMessages}

KindSchemas ==
    {<<Entry("V", v)>> : v \in KindValidators}
    \cup {<<Entry("g", group(<<Entry("V", v)>>, [prefix |-> Str("G_")]))>> :
            v \in KindValidators}

KindTables ==
    { [dev |-> <<Entry("V", CustomValidator(CustomFn({"ok"}, "Wrong Type for URL"),
                                            "custom"))>>],
      [dev |-> <<Entry("V", number)>>] }

KindRaws ==
    { Undefined, Str("required"), Str("Type"), Str("5"), Str("ok"),
      Str("ftp://a.b/c"), Str("http://a.b//c"), Str("https://a.b/c"), Str("a@b.co") }
KindEnvs == {[V |-> r, G_V |-> r] : r \in KindRaws}
KindProcessEnvs == {[V |-> Undefined, G_V |-> Undefined, NODE_ENV |-> Undefined]}

KindOptions ==
    {[env |-> e, nodeEnv |-> n] : e \in KindEnvs, n \in {Str(""), Str("dev")}}

InitKinds == InitWith({<<>>}, KindSchemas, KindProcessEnvs)

NextKinds ==
    \/ \E t \in KindTables : ForEnv(t)
    \/ \E m \in Methods, o \in KindOptions : ParseBase(m, o)
    \/ ParseOverrides
    \/ ParseFinish
    \/ Resume

SpecKinds == InitKinds /\ [][NextKinds]_vars

\* word, given in lower case, occurs in message in some mix of cases
HasWord(message, word) ==
    \E i \in 1..(Len(message) - Len(word) + 1) :
        \A j \in 1..Len(word) : LowerChar(CharAt(message, i + j - 1)) = CharAt(word, j)

KindByRule(message) ==
    LET isMissing == HasWord(message, "required")
        isType == HasWord(message, "type") \/ HasWord(message, "expected a")
        isFormat == \/ HasWord(message, "url")
                    \/ HasWord(message, "email")
                    \/ HasWord(message, "pattern")
    IN CASE isMissing -> "missing"
         [] ~isMissing /\ isType -> "invalid_type"
         [] ~isMissing /\ ~isType /\ isFormat -> "invalid_format"
         [] ~isMissing /\ ~isType /\ ~isFormat -> "invalid_value"

\* C9: the kind of an error recorded for a present, non-empty raw value is
\* the one its message selects, letter case ignored: "required" gives
\* missing; else "type" or "expected a" gives invalid_type; else "url",
\* "email" or "pattern" gives invalid_format; else invalid_value.
C9_KindFromMessage ==
    \A i \in 1..Len(allErrors) :
        ~IsAbsent(allErrors[i].received) =>
            allErrors[i].kind = KindByRule(allErrors[i].message)

C9_Witness ==
    /\ AtEnd
    /\ \E i \in 1..Len(allErrors) :
        /\ allErrors[i].received = Str("5")
        /\ allErrors[i].message = "Wrong Type for URL"
        /\ allErrors[i].kind = "invalid_type"

BuiltInTypes == {v._type : v \in KindValidators} \ {"custom"}

\* C10: an error that a built-in validator gives for a present, non-empty
\* raw value never has the kind "missing".
C10_MissingOnlyWhenAbsent ==
    \A i \in 1..Len(allErrors) :
        (allErrors[i].expected \in BuiltInTypes /\ ~IsAbsent(allErrors[i].received))
            => allErrors[i].kind # "missing"

StartsWith(s, w) == Len(s) >= Len(w) /\ SubSeq(s, 1, Len(w)) = w

\* the error came from a structural check: url(), email(), string().matches()
IsStructuralFailure(e) ==
    \/ e.expected \in {"url", "email"}
    \/ e.expected = "string" /\ StartsWith(e.message, "Must match pattern")

\* C11: a present, non-empty value that url(), email() or string().matches()
\* rejects is reported with the kind "invalid_format".
C11_StructuralIsInvalidFormat ==
    \A i \in 1..Len(allErrors) :
        (~IsAbsent(allErrors[i].received) /\ IsStructuralFailure(allErrors[i]))
            => allErrors[i].kind = "invalid_format"

\* the error came from a value constraint on a well-typed value: a number
\* bound, a string length, the membership of an enum
IsConstraintFailure(e) ==
    \/ e.expected = "number" /\ ~StringToNumber(e.received.s).nan
    \/ e.expected = "string" /\ ~StartsWith(e.message, "Must match pattern")
    \/ StartsWith(e.expected, "enum(")

\* C12: a present, non-empty value that fails a number bound, a string
\* length or the membership of an enum is reported with the kind
\* "invalid_value".  (Stated for the errors whose kind is not "missing":
\* that kind for a present value is the subject of C10.)
C12_ConstraintIsInvalidValue ==
    \A i \in 1..Len(allErrors) :
        (/\ ~IsAbsent(allErrors[i].received)
         /\ IsConstraintFailure(allErrors[i])
         /\ allErrors[i].kind # "missing")
            => allErrors[i].kind = "invalid_value"

\* the outcome of parse(opts) on the Guardian of this state were the ambient
\* process environment pe
ResolveEnv(pe, opts) == IF Opt(opts, "env") = Undefined THEN pe ELSE opts.env
ResolveNodeEnv(pe, opts) == Coalesce(Opt(opts, "nodeEnv"), Lookup(pe, "NODE_ENV"))
PatchedBy(table, e, n, base) ==
    IF OverridesActive(table, n) THEN OverrideLoop(table[n.s], e, base) ELSE base
ParseOf(e, n) ==
    PatchedBy(globalEnvSpecific, e, n,
              ParseSchemaLoop(schema, e, n, [result |-> EmptyObject, allErrors |-> <<>>]))
OutcomeOf(final) == ParseOutcome(final.result, final.allErrors)
ParseCall(pe, opts) == OutcomeOf(ParseOf(ResolveEnv(pe, opts), ResolveNodeEnv(pe, opts)))

\* C13: the outcome of a call that passes options.env does not depend on the
\* ambient process environment: whatever that environment is, the same
\* schema, tables and options give the outcome this call gave.
C13_NoAmbientState ==
    (Returned /\ "env" \in DOMAIN options) =>
        \A pe \in ProcessEnvs : ParseCall(pe, options) = out.parse

\* the keys of the fields in error, in declaration order: a group's fields
\* stand together at the group's place, in the order of its merged shape
BaseOrder ==
    LET failing == SelectSeq(FieldsOf(schema, nodeEnv), LAMBDA f : ~Outcome(f).ok)
    IN [j \in 1..Len(failing) |-> failing[j].envKey]

RECURSIVE RemoveFirst(_, _)
RemoveFirst(keys, k) ==
    IF keys = <<>> THEN <<>>
    ELSE IF Head(keys) = k THEN Tail(keys)
    ELSE <<Head(keys)>> \o RemoveFirst(Tail(keys), k)

OverrideFails(o) == ~Validator_parse(o.value, Lookup(env, o.key)).ok

\* the order once the override entries have had their turn: a key whose
\* override fails stays where it is, or goes last when it was not there
RECURSIVE OrderAfter(_, _)
OrderAfter(keys, overrides) ==
    IF overrides = <<>> THEN keys
    ELSE OrderAfter(IF ~OverrideFails(Head(overrides))
                    THEN RemoveFirst(keys, Head(overrides).key)
                    ELSE IF \E i \in 1..Len(keys) : keys[i] = Head(overrides).key
                    THEN keys
                    ELSE Append(keys, Head(overrides).key),
                    Tail(overrides))

\* C14: the error list is in processing order: the base pass gives the
\* errors in declaration order, a group's errors together at the group's
\* place; a failing override rewrites the error of its key where it stands
\* and otherwise appends one, in the order of the override keys; the list a
\* failed parse carries is that list.
C14_ErrorOrder ==
    /\ pc = "overrides" => ErrorKeys(allErrors) = BaseOrder
    /\ pc \in {"finish", "returned"} =>
        ErrorKeys(allErrors) =
            IF OverridesActive(globalEnvSpecific, nodeEnv)
            THEN OrderAfter(BaseOrder, globalEnvSpecific[nodeEnv.s])
            ELSE BaseOrder
    /\ (Returned /\ out.parse.threw) => out.parse.errors = allErrors

C14_Witness ==
    /\ Returned
    /\ out.parse.threw
    /\ OverridesActive(globalEnvSpecific, nodeEnv)
    /\ BaseOrder = <<"A", "G_B">>
    /\ ErrorKeys(out.parse.errors) = <<"A", "G_B", "G_A">>
    /\ out.parse.errors[1].expected = "number"
    /\ schema[1].value._type = "string"

-----------------------------------------------------------------------------
(* The inputs of the specification SpecWrappers: the caller starts from    *)
(* one validator of a factory function, wraps what it has built with       *)
(* optional(), default() and describe(), calls parse() on the objects and  *)
(* puts them in a schema of one field V.                                   *)

BuiltIns ==
    { string, number, boolean, url, email, enumValidator(<<"5", "x">>),
      CustomValidator(CustomFn({"5"}, "Bad value"), "custom") }

\* a default value of the type the validator parses to
DefaultFor(v) ==
    CASE v._type = "number" -> Num(7, 0)
      [] v._type = "boolean" -> Bool(TRUE)
      [] v._type = "enum(5 | x)" -> Str("5")
      [] OTHER -> Str("d")

DescribeText == "t"

WrapperRaws ==
    {Undefined, Str(""), Str("5"), Str("x"), Str("1"), Str("a@b.co"),
     Str("https://a.b/c")}
WrapperEnvRaws == {Undefined, Str(""), Str("5"), Str("x")}
WrapperOptions == {[env |-> [V |-> r]] : r \in WrapperEnvRaws}
WrapperProcessEnvs == {[V |-> Str("x"), NODE_ENV |-> Undefined]}

InitWrappers == InitWith({<<b>> : b \in BuiltIns}, {<<>>}, WrapperProcessEnvs)

NextWrappers ==
    \/ \E i \in 1..Len(objects) : CallOptional(i)
    \/ \E i \in 1..Len(objects) : CallDefault(i, DefaultFor(objects[i]))
    \/ \E i \in 1..Len(objects) : CallDescribe(i, DescribeText)
    \/ \E i \in 1..Len(objects), r \in WrapperRaws : CallParse(i, r)
    \/ \E i \in 1..Len(objects) : DefineEnv(i)
    \/ \E o \in WrapperOptions : ParseBase("parse", o)
    \/ ParseOverrides
    \/ ParseFinish
    \/ Resume

SpecWrappers == InitWrappers /\ [][NextWrappers]_vars

\* the caller's own call of parse() on one of its objects has returned
Called == pc = "returned" /\ out.method = "Validator.parse"
Self == objects[out.self]

\* parse() of the EnvGuardian has read the variable of the schema's field V
FieldParsed ==
    pc \in {"overrides", "finish", "returned"} /\ mode = "parse" /\ Len(schema) = 1
Field == schema[1].value
IsAbsenceWrapper(v) == v.cls \in {"OptionalWrapper", "DefaultWrapper"}

\* C15: every validator of a factory function fails for undefined and for
\* ""; its optional() answers both with the value undefined and its
\* default(d) answers both with the value d; a schema field wrapped by
\* optional() or default() gives no error when its variable is unset.
C15_AbsenceHandling ==
    /\ (Called /\ IsAbsent(out.raw)) =>
          /\ Self \in BuiltIns => ~out.ret.ok
          /\ (Self.cls = "OptionalWrapper" /\ Self._inner \in BuiltIns)
                => out.ret = Ok(Undefined)
          /\ (Self.cls = "DefaultWrapper" /\ Self._inner \in BuiltIns)
                => out.ret = Ok(DefaultFor(Self._inner))
    /\ (FieldParsed /\ IsAbsenceWrapper(Field) /\ IsAbsent(Lookup(env, "V"))) =>
          /\ allErrors = <<>>
          /\ pc = "returned" => ~out.parse.threw

C15_Witness ==
    /\ Called
    /\ out.raw = Str("")
    /\ Self = default(email, Str("d"))
    /\ out.ret = Ok(Str("d"))

\* C16: for a present, non-empty raw value the parse() of v.optional() and
\* of v.default(d) returns what v.parse() returns: a present value that v
\* rejects is rejected, with v's message, by the wrapper and by a schema
\* field that holds the wrapper.
C16_WrapperDelegates ==
    /\ (Called /\ ~IsAbsent(out.raw) /\ IsAbsenceWrapper(Self)) =>
          out.ret = Validator_parse(Self._inner, out.raw)
    /\ (FieldParsed /\ IsAbsenceWrapper(Field) /\ ~IsAbsent(Lookup(env, "V"))) =>
          IF Validator_parse(Field._inner, Lookup(env, "V")).ok
          THEN /\ allErrors = <<>>
               /\ result = [V |-> Validator_parse(Field._inner, Lookup(env, "V")).value]
          ELSE /\ Len(allErrors) = 1
               /\ allErrors[1].message
                    = Validator_parse(Field._inner, Lookup(env, "V")).error

C16_Witness ==
    /\ Called
    /\ out.raw = Str("x")
    /\ Self = optional(number)
    /\ out.ret = Fail("Expected a number, got \"x\"")

\* the outermost optional() or default() of a chain, if the chain has one:
\* describe() is looked through
RECURSIVE Governing(_)
Governing(v) == IF v.cls = "DescribedWrapper" THEN Governing(v._inner) ELSE v

\* C17: the wrapper applied last governs an absent or empty input:
\* v.optional().default(x) gives x, v.default(x).optional() gives undefined,
\* and any chain of optional(), default() and describe() gives what its
\* outermost optional() or default() gives.
C17_LastWrapperGoverns ==
    (Called /\ IsAbsent(out.raw)) =>
        /\ (Self.cls = "DefaultWrapper" /\ Self._inner.cls = "OptionalWrapper")
              => out.ret = Ok(DefaultFor(Self._inner))
        /\ (Self.cls = "OptionalWrapper" /\ Self._inner.cls = "DefaultWrapper")
              => out.ret = Ok(Undefined)
        /\ Governing(Self).cls = "OptionalWrapper" => out.ret = Ok(Undefined)
        /\ Governing(Self).cls = "DefaultWrapper"
              => out.ret = Ok(DefaultFor(Governing(Self)._inner))

C17_Witness ==
    /\ Called
    /\ out.raw = Undefined
    /\ Self = describe(default(optional(string), Str("d")), DescribeText)
    /\ out.ret = Ok(Str("d"))

\* C18: no step changes an object that is there already: after any number
\* of optional(), default() and describe() calls on it a validator has the
\* kind, required flag, default value, description and parse results it had.
C18_ReceiverUnchanged ==
    [][\/ objects' = objects
       \/ \A i \in 1..Len(objects) :
             /\ i <= Len(objects')
             /\ objects'[i] = objects[i]
             /\ \A r \in WrapperRaws :
                   Validator_parse(objects'[i], r) = Validator_parse(objects[i], r)]_vars

C18_Witness ==
    /\ objects = <<number, optional(number), default(number, Num(7, 0)),
                   describe(number, DescribeText)>>
    /\ Called
    /\ out.self = 1
    /\ out.raw = Str("5")
    /\ out.ret = Ok(Num(5, 0))

IsWrapper(v) == v.cls \in {"OptionalWrapper", "DefaultWrapper", "DescribedWrapper"}

\* an optional() or a default() occurs in the chain of calls that built v
RECURSIVE ChainHasAbsence(_)
ChainHasAbsence(v) ==
    IsWrapper(v) /\ (IsAbsenceWrapper(v) \/ ChainHasAbsence(v._inner))

\* C19: a validator built by a factory function and a chain of optional(),
\* default() and describe() has the required flag false exactly when an
\* optional() or a default() occurs in the chain; a defined default value
\* comes with the required flag false; describe() copies both.
C19_RequiredFlag ==
    \A i \in 1..Len(objects) :
        /\ objects[i]._required = ~ChainHasAbsence(objects[i])
        /\ ~IsUndefined(objects[i]._default) => ~objects[i]._required
        /\ objects[i].cls = "DescribedWrapper" =>
              /\ objects[i]._required = objects[i]._inner._required
              /\ objects[i]._default = objects[i]._inner._default

C19_Witness ==
    /\ Len(objects) = 4
    /\ objects[1] = number /\ objects[1]._required
    /\ objects[2] = default(number, Num(7, 0))
    /\ objects[3] = describe(objects[2], DescribeText)
    /\ objects[3]._default = Num(7, 0) /\ ~objects[3]._required
    /\ objects[4] = describe(number, DescribeText) /\ objects[4]._required

\* C20: the validator that describe(text) returns parses every input,
\* present, empty or absent, to what its receiver parses it to, and has the
\* receiver's kind, required flag and default value; its description is text.
C20_DescribeKeepsBehaviour ==
    /\ (Called /\ Self.cls = "DescribedWrapper") =>
          out.ret = Validator_parse(Self._inner, out.raw)
    /\ \A i \in 1..Len(objects) :
          objects[i].cls = "DescribedWrapper" =>
              /\ objects[i]._type = objects[i]._inner._type
              /\ objects[i]._required = objects[i]._inner._required
              /\ objects[i]._default = objects[i]._inner._default
              /\ objects[i]._description = Str(DescribeText)

C20_Witness ==
    /\ Called
    /\ out.raw = Str("")
    /\ Self = describe(boolean, DescribeText)
    /\ Self._description = Str(DescribeText)
    /\ out.ret = Fail("Value is required")

-----------------------------------------------------------------------------
\* what a caller sees of an error apart from the raw value it quotes
Seen(errors) ==
    [j \in 1..Len(errors) |->
        [key |-> errors[j].key, kind |-> errors[j].kind, message |-> errors[j].message]]

\* two outcomes of parse() with the same values, or with errors of the same
\* key, kind and message in the same order
SameOutcome(a, b) ==
    /\ a.threw = b.threw
    /\ a.threw => Seen(a.errors) = Seen(b.errors)
    /\ ~a.threw => a.value = b.value

\* C21: a variable set to "" is a variable that is not set: the call on the
\* snapshot without that variable has the outcome this call had.
C21_EmptyIsAbsent ==
    (Returned /\ "env" \in DOMAIN options) =>
        \A K \in DOMAIN options.env :
            options.env[K] = Str("") =>
                SameOutcome(ParseCall(processEnv, [options EXCEPT !.env[K] = Undefined]),
                            out.parse)

C21_Witness ==
    /\ Returned
    /\ "env" \in DOMAIN options
    /\ options.env.A = Str("")
    /\ out.parse.threw
    /\ Len(out.parse.errors) = 1
    /\ out.parse.errors[1].key = "A"
    /\ out.parse.errors[1].kind = "missing"
    /\ out.parse.errors[1].received = Str("")

-----------------------------------------------------------------------------
(* The inputs of the specification SpecDocs: schemas whose fields carry    *)
(* defaults and descriptions, read by introspect() and generateExample()   *)
(* between calls of forEnv() and parse().                                  *)

DocEntryPool ==
    { Entry("A", string),
      Entry("A", describe(default(number, Num(3000, 0)), "port")),
      Entry("A", default(string, Str("#fff"))),
      Entry("B", optional(boolean)),
      Entry("B", default(describe(string, "name"), Str("x y"))),
      Entry("g", group(<<Entry("A", default(string, Str("d"))),
                         Entry("B", describe(number, "n"))>>,
                       [prefix |-> Str("G_")])),
      Entry("g", group(<<Entry("B", default(boolean, Bool(FALSE)))>>, NoOptions)),
      Entry("h", group(<<Entry("A", string)>>,
                       [envSpecific |->
                            [dev |-> <<Entry("A", default(string, Str("o"))),
                                       Entry("C", number)>>]])) }

RECURSIVE DocSchemasOfLen(_)
DocSchemasOfLen(n) ==
    IF n = 0 THEN {<<>>}
    ELSE {Append(sch, e) : <<sch, e>> \in
            {pair \in DocSchemasOfLen(n - 1) \X DocEntryPool :
                pair[2].key \notin KeysOf(pair[1])}}

DocSchemas == UNION {DocSchemasOfLen(n) : n \in 1..MaxEntries}

DocTables ==
    { [dev |-> <<Entry("A", default(string, Str("t")))>>],
      [dev |-> <<Entry("B", describe(number, "override"))>>,
       test |-> <<Entry("A", optional(string))>>] }

DocProcessEnvs ==
    { [A |-> Undefined, B |-> Undefined, NODE_ENV |-> Undefined],
      [A |-> Str("5"), B |-> Str("true"), NODE_ENV |-> Str("dev")] }

DocOptions == {NoOptions, [nodeEnv |-> Str("test")]}

ExampleOptionsPool ==
    {NoOptions, [comments |-> Bool(FALSE)], [includeDefaults |-> Bool(FALSE)],
     [comments |-> Bool(FALSE), includeDefaults |-> Bool(FALSE)],
     [comments |-> Bool(TRUE), includeDefaults |-> Bool(TRUE)]}

InitDocs == InitWith({<<>>}, DocSchemas, DocProcessEnvs)

NextDocs ==
    \/ \E t \in DocTables : ForEnv(t)
    \/ Introspect
    \/ \E o \in ExampleOptionsPool : GenerateExample(o)
    \/ \E o \in DocOptions : ParseBase("parse", o)
    \/ ParseOverrides
    \/ ParseFinish
    \/ Resume

SpecDocs == InitDocs /\ [][NextDocs]_vars

\* the fields the schema declares, whatever the environment name
Declared == FieldsOf(schema, Undefined)

\* C22: introspect() gives one descriptor for each declared field, in the
\* order of declaration, a group's fields at the group's place: the key a
\* group field is read from and the group's key, or the bare key and no
\* group; the type, required flag, default and description of the validator
\* the schema declares, whatever the tables of forEnv() and the environment.
C22_IntrospectDeclared ==
    (pc = "returned" /\ out.method = "introspect") =>
        /\ Len(out.ret.fields) = Len(Declared)
        /\ \A j \in 1..Len(Declared) :
              out.ret.fields[j] =
                  [key |-> Declared[j].envKey,
                   group |-> Declared[j].group,
                   type |-> Declared[j].validator._type,
                   required |-> Declared[j].validator._required,
                   default |-> Declared[j].validator._default,
                   description |-> Declared[j].validator._description]

C22_Witness ==
    /\ pc = "returned" /\ out.method = "introspect"
    /\ globalEnvSpecific # Undefined
    /\ Lookup(processEnv, "NODE_ENV") = Str("dev")
    /\ Len(out.ret.fields) = 3
    /\ out.ret.fields[1] = [key |-> "G_A", group |-> Str("g"), type |-> "string",
                            required |-> FALSE, default |-> Str("d"),
                            description |-> Undefined]
    /\ out.ret.fields[3] = [key |-> "A", group |-> Undefined, type |-> "number",
                            required |-> FALSE, default |-> Num(3000, 0),
                            description |-> Str("port")]

\* generateExample() has returned its text
Generated == pc = "returned" /\ out.method = "generateExample"
WithComments == IF "comments" \in DOMAIN out.exOptions THEN out.exOptions.comments.b ELSE TRUE
WithDefaults ==
    IF "includeDefaults" \in DOMAIN out.exOptions THEN out.exOptions.includeDefaults.b
    ELSE TRUE

\* the lines of the text that are neither empty nor a comment
KeyLines == SelectSeq(Split(out.ret, "\n"), LAMBDA l : l # "" /\ CharAt(l, 1) # "#")

\* no line of the text is a comment
NoCommentLine ==
    \A l \in {Split(out.ret, "\n")[j] : j \in 1..Len(Split(out.ret, "\n"))} :
        l = "" \/ CharAt(l, 1) # "#"

\* the KEY= lines are those of the declared fields, in their order, each
\* with the default of its validator or with nothing
OneLinePerField ==
    /\ Len(KeyLines) = Len(Declared)
    /\ \A j \in 1..Len(Declared) :
          KeyLines[j] =
              Declared[j].envKey \o "="
              \o (IF WithDefaults /\ ~IsUndefined(Declared[j].validator._default)
                  THEN JsString(Declared[j].validator._default) ELSE "")

\* C23: generateExample() writes one KEY= line for each declared field, in
\* the order of declaration, a group field under prefix+field; after the =
\* stands the default of the validator when includeDefaults is true and
\* there is a default, and nothing otherwise; with comments false no line of
\* the text begins with #.
C23_ExampleLines ==
    Generated => (OneLinePerField /\ (~WithComments => NoCommentLine))

\* C23 as the specification words it: with comments false the text has no #
\* in it at all.
C23_NoHashAnywhere ==
    Generated => (OneLinePerField /\ (~WithComments => ~Includes(out.ret, "#")))

C23_Witness ==
    /\ Generated
    /\ out.exOptions = [comments |-> Bool(FALSE)]
    /\ out.ret = "G_A=d\nG_B=\n\nA=3000"

-----------------------------------------------------------------------------
\* parse() has thrown
Thrown == Returned /\ out.method \in {"parse", "validate"} /\ out.parse.threw

\* the lines of a text: br is the set of the places of its line breaks
NthBreak(br, k) == CHOOSE i \in br : Cardinality({j \in br : j <= i}) = k
LinesAt(s, br) ==
    [k \in 1..(Cardinality(br) + 1) |->
        SubSeq(s, IF k = 1 THEN 1 ELSE NthBreak(br, k - 1) + 1,
                  IF k = Cardinality(br) + 1 THEN Len(s) ELSE NthBreak(br, k) - 1)]
LinesOf(s) == LinesAt(s, {i \in 1..Len(s) : SubSeq(s, i, i) = "\n"})

\* the lines that open the report of one error, and the titles of sections
EntryLinesOf(lines) ==
    SelectSeq(SubSeq(lines, 4, Len(lines)),
              LAMBDA l : StartsWith(l, "  x ") \/ StartsWith(l, "  ! "))
SectionTitlesOf(lines) == SelectSeq(lines, LAMBDA l : StartsWith(l, "  -- "))

TitleOf(title, errs) ==
    IF Len(errs) > 0
    THEN <<"  -- " \o title \o " (" \o IntToDigits(Len(errs)) \o ") ------------------">>
    ELSE <<>>

\* the message made of these lines reports the errors, those of kind
\* "missing" first, each once
Accounts(lines, entries, missing, invalid) ==
    /\ lines[2] =
          "  x env-guardian: Validation failed (" \o IntToDigits(Len(missing) + Len(invalid))
          \o (IF Len(missing) + Len(invalid) = 1 THEN " error)" ELSE " errors)")
    /\ SectionTitlesOf(lines) = TitleOf("Missing Variables", missing)
                                \o TitleOf("Invalid Variables", invalid)
    /\ Len(entries) = Len(missing) + Len(invalid)
    /\ \A j \in 1..Len(missing) :
          entries[j] = "  x " \o missing[j].key \o " -> missing required variable"
    /\ \A j \in 1..Len(invalid) :
          StartsWith(entries[Len(missing) + j],
                     "  ! " \o invalid[j].key \o " -> invalid ")

AccountsFor(lines, errors) ==
    Accounts(lines, EntryLinesOf(lines),
             SelectSeq(errors, LAMBDA e : e.kind = "missing"),
             SelectSeq(errors, LAMBDA e : e.kind # "missing"))

\* C25: the exception parse() throws holds the whole error list, and its
\* message reports every error once: the header gives the number of errors,
\* the errors of kind "missing" stand under "Missing Variables" and the
\* others under "Invalid Variables", each title with its count, and a
\* section without errors is not written.
C25_MessageAccountsForErrors ==
    Thrown =>
        /\ out.parse.errors = allErrors
        /\ AccountsFor(LinesOf(out.parse.message), allErrors)

C25_Witness ==
    /\ Thrown
    /\ Len(out.parse.errors) = 2
    /\ out.parse.errors[1].kind = "invalid_type"
    /\ out.parse.errors[2].kind = "missing"
    /\ Includes(out.parse.message, "(2 errors)")
    /\ Includes(out.parse.message, "Missing Variables (1)")
    /\ Includes(out.parse.message, "Invalid Variables (1)")

-----------------------------------------------------------------------------
(* The inputs of the specification SpecNumbers: the caller starts from     *)
(* number(), chains min(), max(), int() and port() and calls parse() on    *)
(* what it has built.                                                      *)

LowerBounds == {Num(1, 0), Num(5, 0)}
UpperBounds == {Num(9, 0), Num(65535, 0)}

NumberRaws ==
    {Undefined, Str(""), Str("0"), Str("1"), Str("4"), Str("5"), Str("7.5"), Str("9"),
     Str("10"), Str("80.0"), Str("65535"), Str("65535.5"), Str("65536"), Str("-1"),
     Str(" 5 "), Str("x")}

InitNumbers == InitWith({<<number>>}, {<<>>}, WrapperProcessEnvs)

NextNumbers ==
    \/ \E i \in 1..Len(objects), a \in LowerBounds : CallMin(i, a)
    \/ \E i \in 1..Len(objects), b \in UpperBounds : CallMax(i, b)
    \/ \E i \in 1..Len(objects) : CallInt(i)
    \/ \E i \in 1..Len(objects) : CallPort(i)
    \/ \E i \in 1..Len(objects), r \in NumberRaws : CallParse(i, r)
    \/ Resume

SpecNumbers == InitNumbers /\ [][NextNumbers]_vars

\* the raw value is a decimal numeral, and its value
IsNumeral(raw) == ~IsAbsent(raw) /\ ~StringToNumber(raw.s).nan /\ Trim(raw.s) # ""
ValueOf(raw) == StringToNumber(raw.s)
AtLeast(n, a) == ~NumLess(n, a)
AtMost(n, b) == ~NumLess(b, n)

\* C24: number().port() accepts a decimal numeral exactly when its value is
\* an integer from 1 to 65535, with that value, and gives for every input
\* what number().int().min(1).max(65535) gives.
C24_PortRange ==
    (Called /\ \E j \in 1..Len(objects) :
                  objects[out.self] = NumberValidator_port(objects[j])) =>
        /\ IsNumeral(out.raw) =>
              /\ out.ret.ok = /\ IsInteger(ValueOf(out.raw))
                              /\ AtLeast(ValueOf(out.raw), Num(1, 0))
                              /\ AtMost(ValueOf(out.raw), Num(65535, 0))
              /\ out.ret.ok => out.ret.value = ValueOf(out.raw)
        /\ out.ret =
              Validator_parse(
                  NumberValidator_max(
                      NumberValidator_min(NumberValidator_int(number), Num(1, 0)),
                      Num(65535, 0)),
                  out.raw)

C24_Witness ==
    /\ Called
    /\ objects[out.self] = NumberValidator_port(number)
    /\ out.raw = Str("65536")
    /\ out.ret = Fail("Must be at most 65535 (got 65536)")

\* a modifier of NumberValidator has returned the object it built
BuiltBy(method) == pc = "returned" /\ out.method = method

\* what the fields of a NumberValidator ask of a numeral's value
Enforced(v, n) ==
    /\ v._integer => IsInteger(n)
    /\ ~IsUndefined(v._min) => AtLeast(n, v._min)
    /\ ~IsUndefined(v._max) => AtMost(n, v._max)

\* C26: min(a) sets the lower bound, max(b) the upper bound and int() the
\* integer restriction, each keeping the two constraints of the other kinds
\* that its receiver had; parse() accepts a numeral exactly when its value
\* is not below the lower bound, not above the upper bound (a bound itself
\* is accepted) and an integer where int() was called.
C26_NumberConstraints ==
    /\ BuiltBy("NumberValidator.min") =>
          /\ objects[out.ret]._min = out.arg
          /\ objects[out.ret]._max = objects[out.self]._max
          /\ objects[out.ret]._integer = objects[out.self]._integer
    /\ BuiltBy("NumberValidator.max") =>
          /\ objects[out.ret]._max = out.arg
          /\ objects[out.ret]._min = objects[out.self]._min
          /\ objects[out.ret]._integer = objects[out.self]._integer
    /\ BuiltBy("NumberValidator.int") =>
          /\ objects[out.ret]._integer
          /\ objects[out.ret]._min = objects[out.self]._min
          /\ objects[out.ret]._max = objects[out.self]._max
    /\ (Called /\ IsNumeral(out.raw)) =>
          /\ out.ret.ok = Enforced(Self, ValueOf(out.raw))
          /\ out.ret.ok => out.ret.value = ValueOf(out.raw)

C26_Witness ==
    /\ Called
    /\ objects = <<number, NumberValidator_min(number, Num(5, 0)),
                   NumberValidator_max(NumberValidator_min(number, Num(5, 0)), Num(9, 0)),
                   NumberValidator_int(
                       NumberValidator_max(NumberValidator_min(number, Num(5, 0)),
                                           Num(9, 0)))>>
    /\ out.self = 4
    /\ out.raw = Str("4")
    /\ out.ret = Fail("Must be at least 5 (got 4)")

-----------------------------------------------------------------------------
\* C27: no step of a parse() or validate() call changes the schema, the
\* shape or the override table of a group, or the table of forEnv(); the
\* outcome of a call, whatever calls came before it, is the outcome of the
\* same call on a Guardian just built from the same schema and table.
C27_ParseLeavesGuardian ==
    [][/\ (pc # "idle" \/ pc' # "idle") =>
             /\ schema' = schema
             /\ globalEnvSpecific' = globalEnvSpecific
       /\ Returned => out.parse = ParseCall(processEnv, options)]_vars

C27_Witness ==
    /\ Returned
    /\ Len(schema) = 1
    /\ schema[1] = Entry("h", group(<<Entry("A", string)>>,
                                    [envSpecific |->
                                         [dev |-> <<Entry("A", optional(string))>>]]))
    /\ nodeEnv = Str("dev")
    /\ Lookup(env, "A") = Undefined
    /\ ~out.parse.threw
    /\ out.parse.value = [h |-> [A |-> Undefined]]

-----------------------------------------------------------------------------
\* the errors the base pass of this call gave
BaseErrors ==
    ParseSchemaLoop(schema, env, nodeEnv,
                    [result |-> EmptyObject, allErrors |-> <<>>]).allErrors

CountKey(errors, key) == Cardinality({k \in 1..Len(errors) : errors[k].key = key})

\* the entries of the active forEnv() table whose key the schema does not have
UndeclaredOverrides ==
    IF OverridesActive(globalEnvSpecific, nodeEnv)
    THEN SelectSeq(globalEnvSpecific[nodeEnv.s], LAMBDA o : o.key \notin KeysOf(schema))
    ELSE <<>>

\* the fields that the active override of a group adds to the group's shape
UndeclaredGroupFields ==
    SelectSeq(FieldsOf(schema, nodeEnv),
              LAMBDA f : /\ f.group # Undefined
                         /\ \A d \in 1..Len(Declared) :
                               ~(Declared[d].group = f.group /\ Declared[d].local = f.local))

\* C29: a key that only an active override names is parsed all the same.
\* In a group it is read from prefix+key and its value goes into the
\* group's object, or its error into the list.  In the forEnv() table it is
\* read from env[key]: its value becomes a top-level value, or one error is
\* added to those the base pass gave, and parse() throws.
C29_UndeclaredOverrideKey ==
    AtEnd =>
        /\ \A j \in 1..Len(UndeclaredGroupFields) :
              IF Outcome(UndeclaredGroupFields[j]).ok
              THEN /\ UndeclaredGroupFields[j].group.s \in DOMAIN result
                   /\ UndeclaredGroupFields[j].local
                        \in DOMAIN result[UndeclaredGroupFields[j].group.s]
                   /\ result[UndeclaredGroupFields[j].group.s][UndeclaredGroupFields[j].local]
                        = Outcome(UndeclaredGroupFields[j]).value
              ELSE \E k \in 1..Len(allErrors) :
                       /\ allErrors[k].key = UndeclaredGroupFields[j].envKey
                       /\ allErrors[k].message = Outcome(UndeclaredGroupFields[j]).error
        /\ \A j \in 1..Len(UndeclaredOverrides) :
              IF Validator_parse(UndeclaredOverrides[j].value,
                                 Lookup(env, UndeclaredOverrides[j].key)).ok
              THEN /\ UndeclaredOverrides[j].key \in DOMAIN result
                   /\ result[UndeclaredOverrides[j].key]
                        = Validator_parse(UndeclaredOverrides[j].value,
                                          Lookup(env, UndeclaredOverrides[j].key)).value
              ELSE /\ CountKey(allErrors, UndeclaredOverrides[j].key)
                        = CountKey(BaseErrors, UndeclaredOverrides[j].key) + 1
                   /\ Len(allErrors) > 0

(* ---------------------------------------------------------------------- *)
(* C30                                                                    *)
(* ---------------------------------------------------------------------- *)

ReturnedNormally == Returned /\ out.method = "parse" /\ ~out.parse.threw

\* the object a group's key must hold: one entry per field of the merged
\* shape, under the unprefixed name
GroupComplete(e, obj) ==
    LET fields == FieldsOfEntry(e, nodeEnv)
    IN /\ DOMAIN obj = {fields[j].local : j \in 1..Len(fields)}
       /\ \A j \in 1..Len(fields) :
             /\ Outcome(fields[j]).ok
             /\ obj[fields[j].local] = Outcome(fields[j]).value

\* C30: whenever parse returns normally, the returned object has an entry
\* for every top-level schema key; a group's key holds an object with exactly
\* one entry per field of the group's merged shape, keyed by the unprefixed
\* field name, so no declared field is absent from a successful result.
C30_SuccessIsComplete ==
    ReturnedNormally =>
        \A i \in 1..Len(schema) :
            /\ schema[i].key \in DOMAIN out.ret.value
            /\ isGroupSchema(schema[i].value) =>
                  GroupComplete(schema[i], out.ret.value[schema[i].key])

=============================================================================
